---------------------------- MODULE Spec2Model ----------------------------
(***************************************************************************)
(* Join Manager of pygeoapi (OGC API - Joins): src/pygeoapi/join/manager.py *)
(*                                                                         *)
(* Three specifications share this module:                                 *)
(*   SpecCSV   - JoinManager.process_csv as a function of its input        *)
(*   SpecJoin  - JoinManager.perform_join on features and a stored table   *)
(*   Spec      - the store: files, TinyDB index, locks, concurrent calls   *)
(*                                                                         *)
(* Strings whose characters matter (CSV lines, cells, option values) are   *)
(* sequences of one-character strings; <<>> is the empty string.           *)
(***************************************************************************)
EXTENDS Integers, Sequences, FiniteSets, TLC

VARIABLES
    form,        \* SpecCSV: the arguments of process_csv (provider + form_data)
    result,      \* SpecCSV: what process_csv returned or raised ("none" before)
    joinTable,   \* SpecJoin: the stored table, as read_join_source returns it
    features,    \* SpecJoin: the object handed to perform_join
    before,      \* SpecJoin: that object before the latest perform_join
    joins,       \* SpecJoin: number of perform_join calls so far
    joinStatus,  \* SpecJoin: "none", "ok", or the error of the latest call
    fs,          \* source_dir: id of table-<id>.json |-> its JSON document
    index,       \* join_sources.tinydb: the documents, in insertion order
    clock,       \* the current time, in days
    nextId,      \* the next identifier uuid4() hands out
    dbLock,      \* holder of the index lock, or "free"
    max_days,    \* JoinManager.max_days
    max_files,   \* JoinManager.max_files
    pc,          \* per caller: where its current operation stands
    op,          \* per caller: the locals of its current operation
    ret,         \* per caller: the outcome of the operation it finished in
                 \* the latest step, if it did
    fresh,       \* the table process_csv has just returned, while only
                 \* queries followed the writing of its file
    removed,     \* the (collection, id) pairs remove_source returned True for
    written,     \* id |-> the table process_csv wrote to table-<id>.json,
                 \* for the files in source_dir
    REF_CACHE,   \* join_util: the references, in insertion order
    lru          \* join_util: the cache of read_join_source, the entry
                 \* used last first

csvVars == <<form, result>>
joinVars == <<joinTable, features, before, joins, joinStatus>>
storeVars == <<fs, index, clock, nextId, dbLock, max_days, max_files, pc, op,
               ret, fresh, removed, written>>
utilVars == <<REF_CACHE, lru>>
vars == <<csvVars, joinVars, storeVars, utilVars>>

-----------------------------------------------------------------------------
(* Values *)

\* Python's None
NoneVal == <<"<None>">>

Max(a, b) == IF a >= b THEN a ELSE b
Min(a, b) == IF a <= b THEN a ELSE b
Range(s) == {s[i] : i \in DOMAIN s}

-----------------------------------------------------------------------------
(* str.strip, str.split and the csv reader *)

IsSpace(ch) == ch \in {" ", "\t"}

RECURSIVE LStrip(_)
LStrip(s) ==
    IF s = <<>> THEN <<>>
    ELSE IF IsSpace(Head(s)) THEN LStrip(Tail(s)) ELSE s

RECURSIVE RStrip(_)
RStrip(s) ==
    IF s = <<>> THEN <<>>
    ELSE IF IsSpace(s[Len(s)]) THEN RStrip(SubSeq(s, 1, Len(s) - 1)) ELSE s

\* str.strip()
Strip(s) == RStrip(LStrip(s))

\* str.split(sep): always at least one part
RECURSIVE SplitAcc(_, _, _, _)
SplitAcc(s, sep, cur, acc) ==
    IF s = <<>> THEN Append(acc, cur)
    ELSE IF Head(s) = sep THEN SplitAcc(Tail(s), sep, <<>>, Append(acc, cur))
    ELSE SplitAcc(Tail(s), sep, Append(cur, Head(s)), acc)

Split(s, sep) == SplitAcc(s, sep, <<>>, <<>>)

\* csv.reader on one physical line (no quote characters in the input):
\* an empty line is the row [], any other line is split at the delimiter
ReadRow(line, delimiter) ==
    IF line = <<>> THEN <<>> ELSE Split(line, delimiter)

\* csv.DictReader.__next__: the position of the next row that is not [],
\* Len(rows) + 1 when the reader is exhausted (StopIteration)
RECURSIVE ReaderNext(_, _)
ReaderNext(rows, pos) ==
    IF pos > Len(rows) THEN Len(rows) + 1
    ELSE IF rows[pos] = <<>> THEN ReaderNext(rows, pos + 1)
    ELSE pos

\* dict(zip(fieldnames, row)) followed by the restval loop: the value of
\* column f in the row dict (f is in fieldnames)
RowValue(fieldnames, row, f) ==
    LET last == CHOOSE i \in DOMAIN fieldnames :
                    /\ fieldnames[i] = f
                    /\ \A j \in DOMAIN fieldnames : fieldnames[j] = f => j <= i
    IN  IF last <= Len(row) THEN row[last] ELSE NoneVal

\* any(v.strip() for v in row_dict.values() if v):
\* "yes", "no" or "AttributeError" (the restkey list has no strip())
RowNotBlank(fieldnames, row) ==
    IF \E f \in Range(fieldnames) :
           /\ RowValue(fieldnames, row, f) # NoneVal
           /\ Strip(RowValue(fieldnames, row, f)) # <<>>
    THEN "yes"
    ELSE IF Len(fieldnames) < Len(row) THEN "AttributeError"
    ELSE "no"

-----------------------------------------------------------------------------
(* JoinManager.process_csv, lines 355-511: validation and CSV ingest *)

Raise(kind, why) == [status |-> "error", error |-> kind, reason |-> why]

\* form_data.get(key, default); f.keys are the keys present in form_data
FormGet(f, key, default) == IF key \in f.keys THEN f[key] ELSE default

Digits == <<"0", "1", "2", "3", "4", "5", "6", "7", "8", "9">>
IsDigit(ch) == \E d \in DOMAIN Digits : Digits[d] = ch
DigitVal(ch) == (CHOOSE d \in DOMAIN Digits : Digits[d] = ch) - 1

RECURSIVE DigitsVal(_, _)
DigitsVal(s, acc) ==
    IF s = <<>> THEN acc ELSE DigitsVal(Tail(s), 10 * acc + DigitVal(Head(s)))

\* int(x) of a form value: surrounding whitespace and one sign are accepted;
\* ok = FALSE when int() raises ValueError
ToInt(x) ==
    LET t == Strip(x)
        signed == t # <<>> /\ Head(t) \in {"-", "+"}
        body == IF signed THEN Tail(t) ELSE t
    IN  IF body = <<>> \/ \E i \in DOMAIN body : ~IsDigit(body[i])
        THEN [ok |-> FALSE, val |-> 0]
        ELSE [ok |-> TRUE,
              val |-> IF signed /\ Head(t) = "-" THEN 0 - DigitsVal(body, 0)
                      ELSE DigitsVal(body, 0)]

\* [f.strip() for f in form_data.get('joinFields', '').split(',') if f.strip()]
RECURSIVE StripNonEmpty(_)
StripNonEmpty(parts) ==
    IF parts = <<>> THEN <<>>
    ELSE IF Strip(Head(parts)) = <<>> THEN StripNonEmpty(Tail(parts))
    ELSE <<Strip(Head(parts))>> \o StripNonEmpty(Tail(parts))

UserFields(f) == StripNonEmpty(Split(FormGet(f, "joinFields", <<>>), ","))

\* FilterFields without the test against the right-side key
RECURSIVE FilterFields_KeepKey(_, _, _, _, _)
FilterFields_KeepKey(candidates, collection_fields, fieldnames, right_dataset_key, needHeader) ==
    IF candidates = <<>> THEN <<>>
    ELSE LET f == Head(candidates)
             rest == FilterFields_KeepKey(Tail(candidates), collection_fields,
                                  fieldnames, right_dataset_key, needHeader)
         IN  IF /\ f \notin collection_fields
                /\ (needHeader => f \in Range(fieldnames))
             THEN <<f>> \o rest
             ELSE rest

\* [f for f in candidates if keep(f)], order kept
RECURSIVE FilterFields(_, _, _, _, _)
FilterFields(candidates, collection_fields, fieldnames, right_dataset_key, needHeader) ==
    IF candidates = <<>> THEN <<>>
    ELSE LET f == Head(candidates)
             rest == FilterFields(Tail(candidates), collection_fields,
                                  fieldnames, right_dataset_key, needHeader)
         IN  IF /\ f \notin collection_fields
                /\ (needHeader => f \in Range(fieldnames))
                /\ f # right_dataset_key
             THEN <<f>> \o rest
             ELSE rest

\* lines 438-457
JoinFieldsOf(user_fields, collection_fields, fieldnames, right_dataset_key) ==
    IF user_fields # <<>>
    THEN FilterFields(user_fields, collection_fields, fieldnames,
                      right_dataset_key, TRUE)
    ELSE FilterFields(fieldnames, collection_fields, fieldnames,
                      right_dataset_key, FALSE)

\* lines 459-463: rows_to_skip times next(reader); the reader position after
\* the skipped rows, 0 when next() raised StopIteration
RECURSIVE SkipRows(_, _, _)
SkipRows(rows, pos, rows_to_skip) ==
    IF rows_to_skip = 0 THEN pos
    ELSE LET p == ReaderNext(rows, pos)
         IN  IF p > Len(rows) THEN 0
             ELSE SkipRows(rows, p + 1, rows_to_skip - 1)

\* IngestRows that keeps the key cell as it is (no strip)
RECURSIVE IngestRows_NoStrip(_, _, _, _, _, _, _)
IngestRows_NoStrip(fieldnames, rows, pos, right_dataset_key, join_fields, join_data, row_count) ==
    LET p == ReaderNext(rows, pos)
    IN  IF p > Len(rows)
        THEN [status |-> "ok", join_data |-> join_data, row_count |-> row_count]
        ELSE
        LET row == rows[p]
            notBlank == RowNotBlank(fieldnames, row)
            cell == RowValue(fieldnames, row, right_dataset_key)
        IN  IF notBlank = "AttributeError"
            THEN Raise("AttributeError", "list has no strip")
            ELSE IF notBlank = "no"
            THEN IngestRows_NoStrip(fieldnames, rows, p + 1, right_dataset_key,
                            join_fields, join_data, row_count)
            ELSE IF cell = NoneVal
            THEN Raise("AttributeError", "None has no strip")
            ELSE IF cell = <<>>
            THEN Raise("ValueError", "found empty or missing key")
            ELSE IF cell \in DOMAIN join_data
            THEN Raise("ValueError", "found duplicate key")
            ELSE IngestRows_NoStrip(fieldnames, rows, p + 1, right_dataset_key,
                     join_fields,
                     join_data @@ (cell :>
                        [i \in DOMAIN join_fields |->
                            RowValue(fieldnames, row, join_fields[i])]),
                     row_count + 1)

\* IngestRows that lets a later row replace an earlier row with the same key
RECURSIVE IngestRows_KeepLast(_, _, _, _, _, _, _)
IngestRows_KeepLast(fieldnames, rows, pos, right_dataset_key, join_fields, join_data, row_count) ==
    LET p == ReaderNext(rows, pos)
    IN  IF p > Len(rows)
        THEN [status |-> "ok", join_data |-> join_data, row_count |-> row_count]
        ELSE
        LET row == rows[p]
            notBlank == RowNotBlank(fieldnames, row)
            cell == RowValue(fieldnames, row, right_dataset_key)
            key_value == Strip(cell)
        IN  IF notBlank = "AttributeError"
            THEN Raise("AttributeError", "list has no strip")
            ELSE IF notBlank = "no"
            THEN IngestRows_KeepLast(fieldnames, rows, p + 1, right_dataset_key,
                            join_fields, join_data, row_count)
            ELSE IF cell = NoneVal
            THEN Raise("AttributeError", "None has no strip")
            ELSE IF key_value = <<>>
            THEN Raise("ValueError", "found empty or missing key")
            ELSE IngestRows_KeepLast(fieldnames, rows, p + 1, right_dataset_key,
                     join_fields,
                     (key_value :>
                        [i \in DOMAIN join_fields |->
                            RowValue(fieldnames, row, join_fields[i])]) @@ join_data,
                     row_count + 1)

\* lines 467-488: the loop over the data rows
RECURSIVE IngestRows(_, _, _, _, _, _, _)
IngestRows(fieldnames, rows, pos, right_dataset_key, join_fields, join_data, row_count) ==
    LET p == ReaderNext(rows, pos)
    IN  IF p > Len(rows)
        THEN [status |-> "ok", join_data |-> join_data, row_count |-> row_count]
        ELSE
        LET row == rows[p]
            notBlank == RowNotBlank(fieldnames, row)
            cell == RowValue(fieldnames, row, right_dataset_key)
            key_value == Strip(cell)
        IN  IF notBlank = "AttributeError"
            THEN Raise("AttributeError", "list has no strip")
            ELSE IF notBlank = "no"
            THEN IngestRows(fieldnames, rows, p + 1, right_dataset_key,
                            join_fields, join_data, row_count)
            ELSE IF cell = NoneVal
            THEN Raise("AttributeError", "None has no strip")
            ELSE IF key_value = <<>>
            THEN Raise("ValueError", "found empty or missing key")
            ELSE IF key_value \in DOMAIN join_data
            THEN Raise("ValueError", "found duplicate key")
            ELSE IngestRows(fieldnames, rows, p + 1, right_dataset_key,
                     join_fields,
                     join_data @@ (key_value :>
                        [i \in DOMAIN join_fields |->
                            RowValue(fieldnames, row, join_fields[i])]),
                     row_count + 1)

\* the empty dict
EmptyDict == [k \in {} |-> <<>>]

\* lines 403-494: the body of the try block
ReadCSV(f, csv_data, csv_delimiter, csv_header_row, csv_data_start_row) ==
    LET all_lines == csv_data.lines
        num_lines == Len(all_lines)
        rows == [i \in 1..(num_lines - csv_header_row + 1) |->
                    ReadRow(all_lines[i + csv_header_row - 1], csv_delimiter[1])]
        fieldnames == rows[1]
        right_dataset_key == f.joinKey
        user_fields == UserFields(f)
        collection_fields == f.fields
        join_fields == JoinFieldsOf(user_fields, collection_fields,
                                    fieldnames, right_dataset_key)
        rows_to_skip == csv_data_start_row - csv_header_row - 1
        start == SkipRows(rows, 2, rows_to_skip)
        ingest == IngestRows(fieldnames, rows, start, right_dataset_key,
                             join_fields, EmptyDict, 0)
    IN  IF csv_header_row > num_lines
        THEN Raise("ValueError", "csvHeaderRow exceeds number of CSV rows")
        ELSE IF csv_data_start_row > num_lines
        THEN Raise("ValueError", "csvDataStartRow exceeds number of CSV rows")
        ELSE IF right_dataset_key \notin Range(fieldnames)
        THEN Raise("ValueError", "key field not found in CSV fields")
        ELSE IF start = 0
        THEN Raise("StopIteration", "next(reader)")
        ELSE IF ingest.status = "error" THEN ingest
        ELSE [status |-> "ok", join_fields |-> join_fields,
              join_data |-> ingest.join_data, row_count |-> ingest.row_count]

\* lines 355-511: process_csv up to the construction of `output`
\* f: the provider (providerType, keyFields, fields) and the form data
ProcessCSV(collection_id, f, source_id, created) ==
    LET csv_data == f.joinFile
        csv_delimiter == FormGet(f, "csvDelimiter", <<",">>)
        csv_header_row == ToInt(FormGet(f, "csvHeaderRow", <<"1">>))
        csv_data_start_row == ToInt(FormGet(f, "csvDataStartRow", <<"2">>))
        read == ReadCSV(f, csv_data, csv_delimiter, csv_header_row.val,
                        csv_data_start_row.val)
    IN  IF f.providerType # "feature"
        THEN Raise("ValueError", "join source must be linked to a feature provider")
        ELSE IF "collectionKey" \notin f.keys THEN Raise("KeyError", "collectionKey")
        ELSE IF "joinKey" \notin f.keys THEN Raise("KeyError", "joinKey")
        ELSE IF "joinFile" \notin f.keys THEN Raise("KeyError", "joinFile")
        ELSE IF f.collectionKey \notin f.keyFields
        THEN Raise("ValueError", "collectionKey not found in feature collection")
        ELSE IF ~csv_data.isFileObject
        THEN Raise("ValueError", "join source data must be a FileObject")
        ELSE IF csv_data.content_type \notin {"text/csv", "application/csv"}
        THEN Raise("ValueError", "join source data must be of type text/csv")
        ELSE IF ~csv_header_row.ok \/ ~csv_data_start_row.ok
        THEN Raise("ValueError", "invalid literal for int()")
        ELSE IF Len(csv_delimiter) # 1
        THEN Raise("ValueError", "csvDelimiter must be a single character")
        ELSE IF csv_header_row.val < 1
        THEN Raise("ValueError", "csvHeaderRow must be at least 1")
        ELSE IF csv_data_start_row.val <= csv_header_row.val
        THEN Raise("ValueError", "csvDataStartRow must be greater than csvHeaderRow")
        ELSE IF read.status = "error" THEN read
        ELSE [status |-> "ok",
              table |-> [id |-> source_id,
                         timeStamp |-> created,
                         collectionId |-> collection_id,
                         collectionKey |-> f.collectionKey,
                         joinSource |-> csv_data.name,
                         joinKey |-> f.joinKey,
                         joinFields |-> read.join_fields,
                         numberOfRows |-> Cardinality(DOMAIN read.join_data),
                         data |-> read.join_data]]

-----------------------------------------------------------------------------
(* json.dump / json.load of a join table, lines 516-520 and 583-585 *)

\* a cell is a str or None: a JSON string or null
JsonOfCell(v) ==
    IF v = NoneVal THEN [json |-> "null"] ELSE [json |-> "string", text |-> v]
\* a decoder that reads null as the empty string
CellOfJson_NullAsEmpty(j) == IF j.json = "null" THEN <<>> ELSE j.text
CellOfJson(j) == IF j.json = "null" THEN NoneVal ELSE j.text

\* json.dump(output, f, indent=4): the document written to the file
JsonDump(t) ==
    [id |-> [json |-> "string", text |-> t.id],
     timeStamp |-> [json |-> "string", text |-> t.timeStamp],
     collectionId |-> [json |-> "string", text |-> t.collectionId],
     collectionKey |-> [json |-> "string", text |-> t.collectionKey],
     joinSource |-> [json |-> "string", text |-> t.joinSource],
     joinKey |-> [json |-> "string", text |-> t.joinKey],
     joinFields |-> [json |-> "array",
                     items |-> [i \in DOMAIN t.joinFields |->
                                   [json |-> "string", text |-> t.joinFields[i]]]],
     numberOfRows |-> [json |-> "number", value |-> t.numberOfRows],
     data |-> [json |-> "object",
               members |-> [k \in DOMAIN t.data |->
                               [json |-> "array",
                                items |-> [i \in DOMAIN t.data[k] |->
                                              JsonOfCell(t.data[k][i])]]]]]

\* json.load(f): the dict read_join_source returns
JsonLoad(doc) ==
    [id |-> doc.id.text,
     timeStamp |-> doc.timeStamp.text,
     collectionId |-> doc.collectionId.text,
     collectionKey |-> doc.collectionKey.text,
     joinSource |-> doc.joinSource.text,
     joinKey |-> doc.joinKey.text,
     joinFields |-> [i \in DOMAIN doc.joinFields.items |->
                        doc.joinFields.items[i].text],
     numberOfRows |-> doc.numberOfRows.value,
     data |-> [k \in DOMAIN doc.data.members |->
                  [i \in DOMAIN doc.data.members[k].items |->
                      CellOfJson(doc.data.members[k].items[i])]]]

-----------------------------------------------------------------------------
(* JoinManager.perform_join, lines 589-629 *)

\* a property value that is an int: its decimal digits behind a marker
IntVal(digits) == <<"<int>">> \o digits

\* str(value) of a property value (str, int or None)
PyStr(v) ==
    IF v = NoneVal THEN <<"N", "o", "n", "e">>
    ELSE IF v # <<>> /\ Head(v) = "<int>" THEN Tail(v)
    ELSE v

\* dict.get(key, default)
DictGet(d, key, default) == IF key \in DOMAIN d THEN d[key] ELSE default

\* lines 616-617: the row of the table for the feature's key, [] if none
JoinRow(feature, source_dict) ==
    LET key == PyStr(DictGet(feature.properties, source_dict.collectionKey, <<>>))
    IN  DictGet(source_dict.data, key, <<>>)

\* ZipInto that leaves a property the feature already has
ZipInto_KeepExisting(properties, join_fields, join_row) ==
    LET n == Min(Len(join_fields), Len(join_row))
        set == {join_fields[i] : i \in 1..n}
        LastOf(f) == CHOOSE i \in 1..n :
                        join_fields[i] = f /\ \A j \in 1..n : join_fields[j] = f => j <= i
    IN  [f \in DOMAIN properties \cup set |->
            IF f \in DOMAIN properties THEN properties[f] ELSE join_row[LastOf(f)]]

\* for field, value in zip(join_fields, join_row):
\*     feature['properties'][field] = value
ZipInto(properties, join_fields, join_row) ==
    LET n == Min(Len(join_fields), Len(join_row))
        set == {join_fields[i] : i \in 1..n}
        LastOf(f) == CHOOSE i \in 1..n :
                        join_fields[i] = f /\ \A j \in 1..n : join_fields[j] = f => j <= i
    IN  [f \in DOMAIN properties \cup set |->
            IF f \in set THEN join_row[LastOf(f)] ELSE properties[f]]

\* lines 615-625: the loop body for one feature (which has properties)
JoinFeature(feature, source_dict) ==
    LET join_row == JoinRow(feature, source_dict)
    IN  [feature EXCEPT
            !.properties = ZipInto(@, source_dict.joinFields, join_row),
            !.hasJoined = TRUE,
            !.joined = (join_row # <<>>)]

\* JoinCount that counts every feature
JoinCount_All(items, done, source_dict) == done

\* the number of items[1..done] for which join_count += 1 ran (line 623)
RECURSIVE JoinCount(_, _, _)
JoinCount(items, done, source_dict) ==
    IF done = 0 THEN 0
    ELSE JoinCount(items, done - 1, source_dict)
         + (IF JoinRow(items[done], source_dict) # <<>> THEN 1 ELSE 0)

\* the position of the first item without a 'properties' member
\* (feature['properties'] raises KeyError there), 0 when there is none
FirstBad(items) ==
    IF \E i \in DOMAIN items : ~items[i].hasProperties
    THEN CHOOSE i \in DOMAIN items :
            ~items[i].hasProperties /\ \A j \in 1..(i - 1) : items[j].hasProperties
    ELSE 0

\* lines 604-629: perform_join on `x` with the table read_join_source
\* returned; the join is in place, so an error leaves the features that
\* were already handled joined
PerformJoin(x, source_dict) ==
    LET is_collection == x.hasFeatures /\ x.type = "FeatureCollection"
        items == IF is_collection THEN x.features ELSE <<x.own>>
        bad == FirstBad(items)
        done == IF bad = 0 THEN Len(items) ELSE bad - 1
        joined == [i \in DOMAIN items |->
                      IF i <= done THEN JoinFeature(items[i], source_dict)
                      ELSE items[i]]
        join_count == JoinCount(items, done, source_dict)
        y == IF is_collection THEN [x EXCEPT !.features = joined]
             ELSE [x EXCEPT !.own = joined[1]]
    IN  IF bad # 0 THEN [status |-> "KeyError", x |-> y]
        ELSE [status |-> "ok",
              x |-> IF is_collection
                    THEN [y EXCEPT !.hasNumberJoined = TRUE,
                                   !.numberJoined = join_count]
                    ELSE y]

-----------------------------------------------------------------------------
(* The store: source_dir and the TinyDB index *)
(* A file table-<id>.json is named by its id; `fs` maps the ids of the     *)
(* files that exist to their content. The index is the sequence of the      *)
(* TinyDB documents in insertion order.                                      *)

\* the reference document of a table (lines 182-188 and 524-530)
RefDoc(data, file) ==
    [id |-> data.id, collectionId |-> data.collectionId,
     timeStamp |-> data.timeStamp, joinSource |-> data.joinSource,
     ref |-> file]

\* a query that leaves the collection out
Matches_AnyCollection(doc, collection_id, join_id) == doc.id = join_id

\* (q.id == join_id) & (q.collectionId == collection_id)
Matches(doc, collection_id, join_id) ==
    doc.id = join_id /\ doc.collectionId = collection_id

\* db.insert(doc)
DbInsert(db, doc) == Append(db, doc)

\* an upsert that inserts whether or not a document matches
DbUpsert_Append(db, doc) == Append(db, doc)

\* db.upsert(doc, cond): update every matching document, insert if none
DbUpsert(db, doc) ==
    IF \E i \in DOMAIN db : Matches(db[i], doc.collectionId, doc.id)
    THEN [i \in DOMAIN db |->
             IF Matches(db[i], doc.collectionId, doc.id) THEN doc ELSE db[i]]
    ELSE Append(db, doc)

\* db.remove(cond): every matching document goes
DbRemove(db, collection_id, join_id) ==
    SelectSeq(db, LAMBDA doc : ~Matches(doc, collection_id, join_id))

\* db.search(q.collectionId == collection_id)
DbSearch(db, collection_id) ==
    SelectSeq(db, LAMBDA doc : doc.collectionId = collection_id)

\* db.get(cond) finds a document
DbHas(db, collection_id, join_id) ==
    \E i \in DOMAIN db : Matches(db[i], collection_id, join_id)

\* db.get(cond): the first matching document
DbGet(db, collection_id, join_id) ==
    db[CHOOSE i \in DOMAIN db :
          /\ Matches(db[i], collection_id, join_id)
          /\ \A j \in 1..(i - 1) : ~Matches(db[j], collection_id, join_id)]

\* the names in source_dir: n >= 1 stands for table-<uuid n>.json, and
\* the others for names _SOURCE_FILE_PATTERN does not match (0 for
\* table-notauuid.json, -1 for join_sources.tinydb)
MatchesPattern(name) == name >= 1

\* the content of a file open(file, 'w') has created and json.dump has not
\* completed, which json.load rejects; and the text {}
Truncated == [json |-> "invalid"]
EmptyObject == [json |-> "object"]

\* lines 181-188: json.load(f) succeeds and the document has the fields
Decodes(content) ==
    {"id", "collectionId", "timeStamp", "joinSource"} \subseteq DOMAIN content

\* path.unlink(): the files without `path`
Unlink(files, path) == [f \in DOMAIN files \ {path} |-> files[f]]

\* _find_source_path raising JoinSourceMissingError and leaving the entry
FindSourcePath_KeepOrphan(db, files, collection_id, join_id) ==
    IF ~DbHas(db, collection_id, join_id)
    THEN [status |-> "JoinSourceNotFoundError", path |-> 0, db |-> db]
    ELSE LET file_path == DbGet(db, collection_id, join_id).ref
         IN  IF file_path \notin DOMAIN files
             THEN [status |-> "JoinSourceMissingError", path |-> 0, db |-> db]
             ELSE [status |-> "ok", path |-> file_path, db |-> db]

\* _find_source_path, lines 291-310: the path, or the error raised; an
\* orphaned entry is removed before JoinSourceMissingError is raised
FindSourcePath(db, files, collection_id, join_id) ==
    IF ~DbHas(db, collection_id, join_id)
    THEN [status |-> "JoinSourceNotFoundError", path |-> 0, db |-> db]
    ELSE LET file_path == DbGet(db, collection_id, join_id).ref
         IN  IF file_path \notin DOMAIN files
             THEN [status |-> "JoinSourceMissingError", path |-> 0,
                   db |-> DbRemove(db, collection_id, join_id)]
             ELSE [status |-> "ok", path |-> file_path, db |-> db]

\* list_sources leaving the entries of missing files in the index
ListSources_NoReap(db, files, collection_id) ==
    LET sources == DbSearch(db, collection_id)
        valid == {i \in DOMAIN sources : sources[i].ref \in DOMAIN files}
    IN  [valid_sources |->
            [id \in {sources[i].id : i \in valid} |->
                [timeStamp |-> sources[CHOOSE i \in valid :
                                          sources[i].id = id].timeStamp,
                 joinSource |-> sources[CHOOSE i \in valid :
                                           sources[i].id = id].joinSource,
                 ref |-> sources[CHOOSE i \in valid : sources[i].id = id].ref]],
         db |-> db]

\* list_sources removing the entries of missing files of every collection
ListSources_ReapAll(db, files, collection_id) ==
    [valid_sources |-> ListSources_NoReap(db, files, collection_id).valid_sources,
     db |-> SelectSeq(db, LAMBDA doc : doc.ref \in DOMAIN files)]

\* list_sources, lines 544-564: the dict returned and the index afterwards
ListSources(db, files, collection_id) ==
    LET sources == DbSearch(db, collection_id)
        valid == {i \in DOMAIN sources : sources[i].ref \in DOMAIN files}
        LastOf(id) == CHOOSE i \in valid :
                         sources[i].id = id
                         /\ \A j \in valid : sources[j].id = id => j <= i
    IN  [valid_sources |->
            [id \in {sources[i].id : i \in valid} |->
                [timeStamp |-> sources[LastOf(id)].timeStamp,
                 joinSource |-> sources[LastOf(id)].joinSource,
                 ref |-> sources[LastOf(id)].ref]],
         db |-> SelectSeq(db, LAMBDA doc :
                    ~(doc.collectionId = collection_id
                      /\ \E i \in DOMAIN sources :
                            sources[i].ref \notin DOMAIN files
                            /\ sources[i].id = doc.id))]

\* util.get_current_datetime(): the current time as a string
RECURSIVE GetCurrentDatetime(_)
GetCurrentDatetime(now) ==
    IF now < 10 THEN <<Digits[now + 1]>>
    ELSE GetCurrentDatetime(now \div 10) \o <<Digits[(now % 10) + 1]>>

\* util.str_to_datetime(info['timeStamp'])
StrToDatetime(s) == DigitsVal(s, 0)

\* a retention delete that removes the index entry of a source whose
\* unlink failed
DeleteStale_DropsRef(st, collection_id, item, failing) ==
    IF item.ref \in DOMAIN st.fs /\ item.ref \notin failing
    THEN [fs |-> Unlink(st.fs, item.ref),
          db |-> DbRemove(st.db, collection_id, item.source_id)]
    ELSE [st EXCEPT !.db = DbRemove(@, collection_id, item.source_id)]

\* _delete_source(ref, True) followed by db.remove when it returned True
\* (lines 253-254, 262-263); the unlink of a file in `failing` raises
DeleteStale(st, collection_id, item, failing) ==
    IF item.ref \notin DOMAIN st.fs
    THEN [st EXCEPT !.db = DbRemove(@, collection_id, item.source_id)]
    ELSE IF item.ref \in failing THEN st
    ELSE [fs |-> Unlink(st.fs, item.ref),
          db |-> DbRemove(st.db, collection_id, item.source_id)]

RECURSIVE DeleteAll(_, _, _, _)
DeleteAll(st, collection_id, items, failing) ==
    IF items = <<>> THEN st
    ELSE DeleteAll(DeleteStale(st, collection_id, Head(items), failing),
                   collection_id, Tail(items), failing)

\* sorted(..., key=itemgetter(0)): stable, ascending by timestamp
RECURSIVE SortByTime(_)
SortByTime(items) ==
    IF items = <<>> THEN <<>>
    ELSE LET rest == SortByTime(SubSeq(items, 1, Len(items) - 1))
             x == items[Len(items)]
             k == Cardinality({i \in DOMAIN rest :
                                  rest[i].timestamp <= x.timestamp})
         IN  SubSeq(rest, 1, k) \o <<x>> \o SubSeq(rest, k + 1, Len(rest))

\* lines 242-246: (timestamp, id, ref) of the sources, sorted
SourceItems(sources) ==
    SortByTime([i \in DOMAIN sources |->
                   [timestamp |-> StrToDatetime(sources[i].timeStamp),
                    source_id |-> sources[i].id, ref |-> sources[i].ref]])

\* list(reversed(source_items))
Reverse(s) == [i \in DOMAIN s |-> s[Len(s) + 1 - i]]

\* the keys of the dict _build_refs returned, in insertion order
RECURSIVE CollectionsOf(_)
CollectionsOf(refs) ==
    IF refs = <<>> THEN <<>>
    ELSE LET c == Head(refs).collectionId
         IN  <<c>> \o CollectionsOf(SelectSeq(Tail(refs),
                                    LAMBDA d : d.collectionId # c))

\* an age pass that takes max_days = 0 for a cap of no days
StaleByAge_ZeroIsCap(source_items, now, max_age) ==
    SelectSeq(source_items, LAMBDA it : ~(now - it.timestamp <= max_age))

\* lines 249-252: the sources the age pass tries to delete
StaleByAge(source_items, now, max_age) ==
    IF max_age > 0
    THEN SelectSeq(source_items, LAMBDA it : ~(now - it.timestamp <= max_age))
    ELSE <<>>

\* lines 260-261: the sources the count pass tries to delete
StaleByCount(source_items, max_count) ==
    IF 0 < max_count /\ max_count < Len(source_items)
    THEN SubSeq(Reverse(source_items), 1, max_count)
    ELSE <<>>

\* lines 239-266: the two passes over the collections of `refs`, the
\* references _build_refs returned
RECURSIVE CleanupPasses(_, _, _, _, _, _, _)
CleanupPasses(st, colls, refs, now, max_age, max_count, failing) ==
    IF colls = <<>> THEN st
    ELSE LET collection_id == Head(colls)
             sources == SelectSeq(refs, LAMBDA d : d.collectionId = collection_id)
             source_items == SourceItems(sources)
             st1 == DeleteAll(st, collection_id,
                              StaleByAge(source_items, now, max_age), failing)
             st2 == DeleteAll(st1, collection_id,
                              StaleByCount(source_items, max_count), failing)
         IN  CleanupPasses(st2, Tail(colls), refs, now, max_age, max_count,
                           failing)

-----------------------------------------------------------------------------
(* SpecCSV: process_csv applied to bounded inputs *)

\* longest CSV file, in physical lines
MaxLines == 4

\* field names: i (the id), n (a name the provider also has), a, b
\* physical lines of the uploaded file, without their line ends
LineSet ==
    { <<>>,                                 \* blank line
      <<"i", ",", "a">>,                    \* i,a
      <<"#">>,                              \* a comment line
      <<"1", ",", "x">>,                    \* 1,x
      <<"1", " ", ",", "y">>,               \* key with trailing blank
      <<"2", ",", "x", ",", "z">>,          \* 2,x,z
      <<",", "x">>,                         \* empty key
      <<" ", ",">>,                         \* only blank cells
      <<"2">> }                             \* short row

SeqsUpTo(S, n) == UNION {[1..k -> S] : k \in 0..n}

CsvFile(lines) ==
    [isFileObject |-> TRUE, name |-> "test.csv", content_type |-> "text/csv",
     lines |-> lines]

GoodLines == << <<"i", ",", "a", ",", "b">>, <<"1", ",", "x", ",", "y">>,
                <<"2", ",", "x", ",", "z">> >>

DefaultForm ==
    [providerType |-> "feature", keyFields |-> {<<"i">>, <<"n">>},
     fields |-> {<<"i">>, <<"n">>},
     keys |-> {"collectionKey", "joinKey", "joinFile"},
     collectionKey |-> <<"i">>, joinKey |-> <<"i">>,
     joinFile |-> CsvFile(GoodLines),
     joinFields |-> <<>>, csvDelimiter |-> <<",">>,
     csvHeaderRow |-> <<"1">>, csvDataStartRow |-> <<"2">>]

RowOptions ==
    { <<<<"1">>, <<"2">>>>, <<<<"1">>, <<"3">>>>, <<<<"2">>, <<"3">>>>,
      <<<<"2">>, <<"4">>>> }

\* the shape of the file varies
ShapeForm(lines, ro) ==
    [DefaultForm EXCEPT !.joinFile = CsvFile(lines),
                        !.keys = @ \cup {"csvHeaderRow", "csvDataStartRow"},
                        !.csvHeaderRow = ro[1], !.csvDataStartRow = ro[2]]

JoinFieldsOptions ==
    { <<>>, <<"a">>, <<"b", ",", "a">>, <<" ", "a", " ", ",", ",", "n">>,
      <<"i", ",", "c">>, <<",", " ">>, <<"a", ",", "a">> }

HeaderSet ==
    { <<"i", ",", "a", ",", "b">>, <<"i", ",", "n", ",", "a">>,
      <<"a", ",", "i", ",", "a">>, <<"b", ",", "a", ",", "i">>, <<"i">> }

FieldRows == {<<"1", ",", "x", ",", "y">>, <<"1", ",", "x">>}
ProviderFields == {{<<"i">>, <<"n">>}, {<<"n">>}, {<<"n">>, <<"b">>}}

\* the header, the joinFields option and the provider's fields vary
FieldForm(h, l, ks, jf, jk, pf) ==
    [DefaultForm EXCEPT !.joinFile = CsvFile(<<h, l>>),
                        !.keys = @ \cup ks,
                        !.joinFields = jf, !.joinKey = jk, !.fields = pf]

RequiredKeys == {"collectionKey", "joinKey", "joinFile"}
KeySets ==
    {RequiredKeys \cup o :
        o \in SUBSET {"csvDelimiter", "csvHeaderRow", "csvDataStartRow"}}
    \cup {RequiredKeys \ {k} : k \in RequiredKeys}
Delimiters == {<<",">>, <<";">>, <<>>, <<";", ";">>}
HeaderRows == {<<"1">>, <<"0">>, <<"x">>, <<" ", "2">>}
DataStartRows == {<<"2">>, <<"1">>, <<"3">>, <<"-", "1">>}

\* the options vary
OptionForm(pt, ks, ck, fo, ct, dl, hr, dr) ==
    [DefaultForm EXCEPT !.providerType = pt, !.keys = ks,
                        !.collectionKey = ck,
                        !.joinFile = [CsvFile(GoodLines) EXCEPT
                                         !.isFileObject = fo,
                                         !.content_type = ct],
                        !.csvDelimiter = dl,
                        !.csvHeaderRow = hr, !.csvDataStartRow = dr]

NoResult == [status |-> "none"]

NoFeature ==
    [hasProperties |-> FALSE, properties |-> EmptyDict, hasJoined |-> FALSE,
     joined |-> FALSE, id |-> 0, geometry |-> 0]
NoObject ==
    [type |-> "Feature", hasFeatures |-> FALSE, features |-> <<>>,
     own |-> NoFeature, hasNumberJoined |-> FALSE, numberJoined |-> 0]
NoTable == [id |-> 0]

\* the callers of the store, and the collections they name
Procs == {"p1", "p2"}
Collections == {"c1", "c2"}

EmptyDir == [f \in {} |-> 0]
NoOp ==
    [name |-> "none", collection_id |-> "none", join_id |-> 0,
     output |-> NoTable, now |-> 0, scan |-> "none", todo |-> {},
     refs |-> {}, path |-> 0, after |-> NoTable, features |-> NoObject]

\* what a finished operation returned (table, listing, flag) or raised
\* (status); `after` is the table process_csv had just returned
\* when the operation was called; `passed` is the object perform_join was
\* called with and `features` that object when perform_join finished
Outcome(name, collection_id, join_id, status) ==
    [name |-> name, collection_id |-> collection_id, join_id |-> join_id,
     status |-> status, table |-> NoTable,
     listing |-> EmptyDir, flag |-> FALSE, after |-> NoTable,
     passed |-> NoObject, features |-> NoObject]
NoRet == Outcome("none", "none", 0, "none")

\* the variables of join_util while another specification runs
UtilIdle ==
    /\ REF_CACHE = <<>>
    /\ lru = <<>>

\* the variables of the store while another specification runs
StoreIdle ==
    /\ fs = EmptyDir
    /\ index = <<>>
    /\ clock = 0
    /\ nextId = 1
    /\ dbLock = "free"
    /\ max_days = 0
    /\ max_files = 0
    /\ pc = [p \in Procs |-> "idle"]
    /\ op = [p \in Procs |-> NoOp]
    /\ ret = [p \in Procs |-> NoRet]
    /\ fresh = NoTable
    /\ removed = {}
    /\ written = EmptyDir
    /\ UtilIdle

\* the variables of SpecJoin while another specification runs
JoinIdle ==
    /\ joinTable = NoTable
    /\ features = NoObject
    /\ before = NoObject
    /\ joins = 0
    /\ joinStatus = "none"

InitForm ==
    \/ \E lines \in SeqsUpTo(LineSet, MaxLines), ro \in RowOptions :
          form = ShapeForm(lines, ro)
    \/ \E h \in HeaderSet, l \in FieldRows, ks \in {{}, {"joinFields"}},
          jf \in JoinFieldsOptions, jk \in {<<"i">>, <<"a">>},
          pf \in ProviderFields :
          form = FieldForm(h, l, ks, jf, jk, pf)
    \/ \E pt \in {"feature", "coverage"}, ks \in KeySets,
          ck \in {<<"i">>, <<"a">>}, fo \in BOOLEAN,
          ct \in {"text/csv", "application/csv", "text/plain"},
          dl \in Delimiters, hr \in HeaderRows, dr \in DataStartRows :
          form = OptionForm(pt, ks, ck, fo, ct, dl, hr, dr)

InitCSV ==
    /\ InitForm
    /\ result = NoResult
    /\ JoinIdle
    /\ StoreIdle

\* one call of process_csv, up to the construction of `output`
Ingest ==
    /\ result.status = "none"
    /\ result' = ProcessCSV("c1", form, 1, 0)
    /\ UNCHANGED <<form, joinVars, storeVars, utilVars>>

NextCSV == Ingest

SpecCSV == InitCSV /\ [][NextCSV]_vars

-----------------------------------------------------------------------------
(* process_csv: what the claims say about a call, read off the input *)

TheLines == form.joinFile.lines
TheDelimiter == FormGet(form, "csvDelimiter", <<",">>)[1]
HeaderRow == ToInt(FormGet(form, "csvHeaderRow", <<"1">>)).val
DataStartRow == ToInt(FormGet(form, "csvDataStartRow", <<"2">>)).val
Cells(i) == ReadRow(TheLines[i], TheDelimiter)
Header == Cells(HeaderRow)

\* the records after the header: the lines that are not empty
RecordLines == {i \in (HeaderRow + 1)..Len(TheLines) : TheLines[i] # <<>>}
\* the data rows: the records after the DataStartRow - HeaderRow - 1 rows
\* that are skipped behind the header (spec 4.2, steps 8 and 9)
DataLines ==
    {i \in RecordLines :
        Cardinality({j \in RecordLines : j < i}) >= DataStartRow - HeaderRow - 1}
\* every cell of the row is blank
BlankRow(i) ==
    \A c \in DOMAIN Cells(i) : \A k \in DOMAIN Cells(i)[c] : IsSpace(Cells(i)[c][k])
NonBlankDataLines == {i \in DataLines : ~BlankRow(i)}
\* the column a name stands for (the last one of that name)
Column(name) ==
    CHOOSE c \in DOMAIN Header :
        Header[c] = name /\ \A d \in DOMAIN Header : Header[d] = name => d <= c
CellOf(i, name) ==
    IF Column(name) <= Len(Cells(i)) THEN Cells(i)[Column(name)] ELSE NoneVal
\* the trimmed key of a row, empty when the row has no key cell
KeyOf(i) ==
    IF CellOf(i, form.joinKey) = NoneVal THEN <<>>
    ELSE Strip(CellOf(i, form.joinKey))

Thm_C7_EffectiveJoinFields ==
    result.status = "ok" =>
        LET t == result.table
            user == UserFields(form)
            Keep(f) == f \notin form.fields /\ f # form.joinKey
            KeepUser(f) == Keep(f) /\ \E c \in DOMAIN Header : Header[c] = f
        IN  /\ \A j \in DOMAIN t.joinFields :
                 /\ t.joinFields[j] \notin form.fields
                 /\ t.joinFields[j] # t.joinKey
            /\ user # <<>> => t.joinFields = SelectSeq(user, KeepUser)
            /\ user = <<>> => t.joinFields = SelectSeq(Header, Keep)

\* a user list of which one name is kept and another is dropped
Wit_C7_EffectiveJoinFields ==
    /\ result.status = "ok"
    /\ Len(UserFields(form)) > Len(result.table.joinFields)
    /\ result.table.joinFields # <<>>
    /\ form.joinKey \in Range(UserFields(form))

-----------------------------------------------------------------------------
(* SpecJoin: perform_join applied to bounded features and stored tables *)

\* most features in a feature collection
MaxFeatures == 2
\* perform_join calls on the same object
MaxJoins == 2

Props ==
    { EmptyDict,
      (<<"i">> :> <<"1">>),
      (<<"i">> :> IntVal(<<"1">>)),
      (<<"i">> :> <<"9">>),
      (<<"i">> :> NoneVal),
      (<<"i">> :> <<"1">>) @@ (<<"a">> :> <<"o">>) @@ (<<"n">> :> <<"N">>),
      (<<"i">> :> <<"x">>) @@ (<<"b">> :> <<"o">>) }

FeatureSet ==
    { [hasProperties |-> TRUE, properties |-> p, hasJoined |-> FALSE,
       joined |-> FALSE, id |-> 1, geometry |-> 1] : p \in Props }
    \cup {[NoFeature EXCEPT !.id = 2, !.geometry = 2]}

ObjectSet ==
    { [NoObject EXCEPT !.type = "FeatureCollection", !.hasFeatures = TRUE,
                       !.features = ftrs] : ftrs \in SeqsUpTo(FeatureSet, MaxFeatures) }
    \cup { [NoObject EXCEPT !.own = f] : f \in FeatureSet }
    \cup { [NoObject EXCEPT !.type = "FeatureCollection", !.own = f] :
              f \in FeatureSet }

\* the variables of SpecCSV while another specification runs
CSVIdle ==
    /\ form = DefaultForm
    /\ result = NoResult

\* the stored table is one that process_csv wrote and read_join_source read
InitJoin ==
    /\ CSVIdle
    /\ StoreIdle
    /\ \E h \in HeaderSet, l \in FieldRows, ks \in {{}, {"joinFields"}},
          jf \in JoinFieldsOptions, jk \in {<<"i">>, <<"a">>},
          pf \in ProviderFields :
          LET r == ProcessCSV("c1", FieldForm(h, l, ks, jf, jk, pf), 1, 0)
          IN  /\ r.status = "ok"
              /\ joinTable = JsonLoad(JsonDump(r.table))
    /\ features \in ObjectSet
    /\ before = features
    /\ joins = 0
    /\ joinStatus = "none"

\* one call of perform_join(features, c, joinTable.id)
DoJoin ==
    /\ joins < MaxJoins
    /\ joinStatus \in {"none", "ok"}
    /\ LET r == PerformJoin(features, joinTable)
       IN  /\ features' = r.x
           /\ joinStatus' = r.status
    /\ before' = features
    /\ joins' = joins + 1
    /\ UNCHANGED <<csvVars, joinTable, storeVars, utilVars>>

NextJoin == DoJoin

SpecJoin == InitJoin /\ [][NextJoin]_vars

\* the features perform_join works on
ItemsOf(x) ==
    IF x.hasFeatures /\ x.type = "FeatureCollection" THEN x.features ELSE <<x.own>>
\* the stringified key of a feature, "" when it has none
KeyOfFeature(f) ==
    PyStr(DictGet(f.properties, joinTable.collectionKey, <<>>))
Matched(f) == KeyOfFeature(f) \in DOMAIN joinTable.data

\* C8: after perform_join every feature has a boolean member joined, which
\* is True exactly when the stringified key of the feature is a key of the
\* table's data
CE_C8_JoinedIffKeyInData ==
    (joins = 1 /\ joinStatus = "ok") =>
        \A i \in DOMAIN ItemsOf(features) :
            /\ ItemsOf(features)[i].hasJoined
            /\ ItemsOf(features)[i].joined \in BOOLEAN
            /\ ItemsOf(features)[i].joined <=> Matched(ItemsOf(before)[i])

\* C9: a matched feature carries the row's value under every join field and
\* keeps everything else; an unmatched feature keeps its properties
Thm_C9_LeftMerge ==
    (joins = 1 /\ joinStatus = "ok") =>
        \A i \in DOMAIN ItemsOf(features) :
            LET b == ItemsOf(before)[i]
                a == ItemsOf(features)[i]
                t == joinTable
            IN  /\ a.id = b.id
                /\ a.geometry = b.geometry
                /\ Matched(b) =>
                     /\ \A j \in DOMAIN t.joinFields :
                            /\ t.joinFields[j] \in DOMAIN a.properties
                            /\ a.properties[t.joinFields[j]]
                                   = t.data[KeyOfFeature(b)][j]
                     /\ DOMAIN a.properties
                            = DOMAIN b.properties \cup Range(t.joinFields)
                     /\ \A n \in DOMAIN b.properties \ Range(t.joinFields) :
                            a.properties[n] = b.properties[n]
                /\ ~Matched(b) => a.properties = b.properties

\* a matched feature of which a property was overwritten, next to an
\* unmatched one
Wit_C9_LeftMerge ==
    /\ joins = 1
    /\ joinStatus = "ok"
    /\ \E i, k \in DOMAIN ItemsOf(features) :
          /\ Matched(ItemsOf(before)[i])
          /\ \E n \in DOMAIN ItemsOf(before)[i].properties :
                ItemsOf(features)[i].properties[n]
                    # ItemsOf(before)[i].properties[n]
          /\ ~Matched(ItemsOf(before)[k])

\* C10: a feature collection gets numberJoined, the number of its features
\* with joined = True; a single feature gets no numberJoined
Thm_C10_NumberJoined ==
    (joins >= 1 /\ joinStatus = "ok") =>
        IF features.hasFeatures /\ features.type = "FeatureCollection"
        THEN /\ features.hasNumberJoined
             /\ features.numberJoined
                  = Cardinality({i \in DOMAIN features.features :
                                    features.features[i].joined})
        ELSE ~features.hasNumberJoined

\* a collection of a joined and an unjoined feature
Wit_C10_NumberJoined ==
    /\ joins = 1
    /\ joinStatus = "ok"
    /\ features.hasFeatures
    /\ features.numberJoined = 1
    /\ Len(features.features) = 2

\* C11: perform_join applied a second time to the same object with the
\* same table leaves the object as the first application left it
CE_C11_Idempotent ==
    (joins = 2 /\ joinStatus = "ok") => features = before


-----------------------------------------------------------------------------
(* The store under its callers: process_csv, list_sources,                  *)
(* read_join_source, remove_source and the construction of a JoinManager    *)
(* on the same source_dir, their steps interleaved where the code holds     *)
(* no lock across them.                                                      *)

MaxIds == 2
MaxConcIds == 1
MaxTime == 2
\* the ids a client asks for: those process_csv has handed out, and 0 for
\* a string uuid.UUID rejects
AskedIds == 0..(nextId - 1)
\* the configurations: no retention, and a cap of a day and of a file
Configs == {<<0, 0>>, <<1, 1>>}

StoreLines ==
    << <<"i", ",", "a">>, <<"1", " ", ",", " ", "x">>, <<"2">> >>
Line(a, b) == <<a, ",", b>>
GoodForms == {ShapeForm(StoreLines, <<<<"1">>, <<"2">>>>)}
BadForms ==
    {OptionForm(pt, RequiredKeys, <<"i">>, TRUE, "text/csv", <<",">>,
                <<"1">>, <<"2">>) : pt \in {"coverage"}}
    \cup {OptionForm("feature", RequiredKeys \ {k}, <<"i">>, TRUE, "text/csv",
                     <<",">>, <<"1">>, <<"2">>) : k \in {"joinKey"}}
    \cup {OptionForm("feature", RequiredKeys, <<"a">>, TRUE, ct, <<",">>,
                     <<"1">>, <<"2">>) : ct \in {"text/csv"}}
    \cup {OptionForm("feature", RequiredKeys, <<"i">>, TRUE, ct, <<",">>,
                     <<"1">>, <<"2">>) : ct \in {"text/plain"}}
    \cup {OptionForm("feature",
                     RequiredKeys \cup {"csvDelimiter", "csvHeaderRow"},
                     <<"i">>, TRUE, "text/csv", o[1], o[2], <<"2">>) :
             o \in {<<<<";", ";">>, <<"1">>>>, <<<<",">>, <<"0">>>>,
                    <<<<",">>, <<"x">>>>}}
    \cup {ShapeForm(o[1], o[2]) :
             o \in {<< <<Line("i", "a")>>, <<<<"2">>, <<"3">>>> >>,
                    << <<Line("i", "a"), Line("1", "x")>>,
                       <<<<"1">>, <<"3">>>> >>,
                    << <<Line("a", "b"), Line("1", "x")>>,
                       <<<<"1">>, <<"2">>>> >>,
                    << <<Line("i", "a"), <<",", "x">>>>,
                       <<<<"1">>, <<"2">>>> >>,
                    << <<Line("i", "a"), Line("1", "x"),
                         <<"1", " ", ",", "y">>>>,
                       <<<<"1">>, <<"2">>>> >>}}
StoreForms == GoodForms \cup BadForms

\* what lines 355-494 of process_csv make of each form
Parsed == [f \in StoreForms |-> ProcessCSV("none", f, 0, <<>>)]

\* lines 499-511: `output`, with the id, the time and the collection of
\* the call
Output(parsed, collection_id, source_id, created) ==
    [parsed.table EXCEPT !.id = source_id, !.timeStamp = created,
                         !.collectionId = collection_id]

\* an id check that accepts every string
ValidId_Any(join_id) == TRUE
\* uuid.UUID(join_id) accepts the id
ValidId(join_id) == join_id >= 1

InitStore ==
    /\ fs = EmptyDir
    /\ index = <<>>
    /\ clock = 0
    /\ nextId = 1
    /\ dbLock = "free"
    /\ \E config \in Configs : max_days = config[1] /\ max_files = config[2]
    /\ pc = [p \in Procs |-> "idle"]
    /\ op = [p \in Procs |-> NoOp]
    /\ ret = [p \in Procs |-> NoRet]
    /\ fresh = NoTable
    /\ removed = {}
    /\ written = EmptyDir
    /\ CSVIdle
    /\ JoinIdle
    /\ UtilIdle

\* the operation of p returns or raises
Return(p, outcome) ==
    /\ ret' = [q \in Procs |-> IF q = p THEN outcome ELSE NoRet]
    /\ pc' = [pc EXCEPT ![p] = "idle"]
    /\ op' = [op EXCEPT ![p] = NoOp]

\* the operation of p moves on to `to`
Goto(p, to, locals) ==
    /\ pc' = [pc EXCEPT ![p] = to]
    /\ op' = [op EXCEPT ![p] = locals]
    /\ ret' = [q \in Procs |-> NoRet]

\* the tables written, of the files in source_dir
Kept(tables, files) ==
    [id \in DOMAIN tables \cap DOMAIN files |-> tables[id]]

Frame ==
    /\ UNCHANGED <<max_days, max_files, csvVars, joinVars, utilVars>>
    /\ written' = Kept(written, fs')

\* remove_source returns True for (collection_id, join_id)
Removed(collection_id, join_id) ==
    removed' = removed \cup {<<collection_id, join_id>>}

\* the files after json.dump(output, f) into table-<id>.json
WriteFile(files, output) ==
    [f \in DOMAIN files \cup {output.id} |->
        IF f = output.id THEN JsonDump(output) ELSE files[f]]

\* the errors process_csv raises for the forms, and the forms it accepts
Raised == {Parsed[f].error : f \in {g \in StoreForms : Parsed[g].status = "error"}}
Accepted == {f \in StoreForms : Parsed[f].status = "ok"}

\* process_csv creating the file of the table before it validates the form
PcsStart_FileFirst(p, cap) ==
    /\ pc[p] = "idle"
    /\ \/ \E error \in Raised, c \in Collections, f \in Accepted :
             /\ Return(p, Outcome("process_csv", "none", 0, error))
             /\ fs' = WriteFile(fs, Output(Parsed[f], c, nextId,
                                           GetCurrentDatetime(clock)))
             /\ nextId' = nextId
       \/ \E c \in Collections, f \in Accepted :
             /\ nextId <= cap
             /\ nextId' = nextId + 1
             /\ fs' = fs
             /\ Goto(p, "cl_begin",
                     [NoOp EXCEPT !.name = "process_csv",
                                  !.collection_id = c,
                                  !.output = Output(Parsed[f], c, nextId,
                                                GetCurrentDatetime(clock))])
    /\ fresh' = NoTable
    /\ UNCHANGED <<index, clock, dbLock>>
    /\ removed' = removed
    /\ Frame

\* process_csv, lines 355-511: the form is validated and the CSV parsed;
\* an error is raised before the store is touched; `cap` bounds the number
\* of tables created
PcsStart(p, cap) ==
    /\ pc[p] = "idle"
    /\ \/ \E error \in Raised :
             /\ Return(p, Outcome("process_csv", "none", 0, error))
             /\ nextId' = nextId
       \/ \E c \in Collections, f \in Accepted :
             /\ nextId <= cap
             /\ nextId' = nextId + 1
             /\ Goto(p, "cl_begin",
                     [NoOp EXCEPT !.name = "process_csv",
                                  !.collection_id = c,
                                  !.output = Output(Parsed[f], c, nextId,
                                                GetCurrentDatetime(clock))])
    /\ fresh' = NoTable
    /\ UNCHANGED <<fs, index, clock, dbLock>>
    /\ removed' = removed
    /\ Frame

\* __init__, line 75: _build_refs takes the index lock and lists source_dir
Construct(p) ==
    /\ pc[p] = "idle"
    /\ dbLock = "free"
    /\ dbLock' = p
    /\ Goto(p, "br_check", [NoOp EXCEPT !.name = "construct",
                                        !.scan = "init",
                                        !.todo = DOMAIN fs])
    /\ fresh' = NoTable
    /\ UNCHANGED <<fs, index, clock, nextId>>
    /\ removed' = removed
    /\ Frame

\* _cleanup_sources, lines 234-235: `now` is taken before the lock
ClBegin(p) ==
    /\ pc[p] = "cl_begin"
    /\ Goto(p, "cl_lock", [op[p] EXCEPT !.now = clock])
    /\ fresh' = NoTable
    /\ UNCHANGED <<fs, index, clock, nextId, dbLock>>
    /\ removed' = removed
    /\ Frame

\* lines 237-239 and 175-176: the index lock is taken (again, by
\* _build_refs) and source_dir is listed
ClLock(p) ==
    /\ pc[p] = "cl_lock"
    /\ dbLock = "free"
    /\ dbLock' = p
    /\ Goto(p, "br_check", [op[p] EXCEPT !.scan = "cleanup",
                                         !.todo = DOMAIN fs,
                                         !.refs = {}])
    /\ fresh' = NoTable
    /\ UNCHANGED <<fs, index, clock, nextId>>
    /\ removed' = removed
    /\ Frame

\* FileLock(table-<id>.json.lock) is held: by the process_csv that is
\* writing the file, lines 518-520; every other holder takes and releases
\* it within one step
FileLocked(file) ==
    \E q \in Procs : pc[q] = "pcs_write" /\ op[q].output.id = file

\* line 177: the next directory entry; a file that is gone, and a name
\* the pattern does not match, is skipped
BrCheck(p) ==
    /\ pc[p] = "br_check"
    /\ \E file \in op[p].todo :
          IF file \in DOMAIN fs /\ MatchesPattern(file)
          THEN Goto(p, "br_open", [op[p] EXCEPT !.todo = @ \ {file},
                                                !.path = file])
          ELSE Goto(p, "br_check", [op[p] EXCEPT !.todo = @ \ {file}])
    /\ fresh' = NoTable
    /\ UNCHANGED <<fs, index, clock, nextId, dbLock>>
    /\ removed' = removed
    /\ Frame

\* result.setdefault(data['collectionId'], {})[data['id']] = doc; the
\* order of the entries is chosen when the passes run
SetRef(refs, doc) ==
    {d \in refs : ~Matches(d, doc.collectionId, doc.id)} \cup {doc}

\* the orders in which source_dir.iterdir() can have yielded the files
Orderings(refs) ==
    {s \in [1..Cardinality(refs) -> refs] :
        \A i, j \in DOMAIN s : i # j => s[i] # s[j]}

\* a _build_refs that leaves the index lock held when open() raises
BrOpen_LeavesLock(p) ==
    /\ pc[p] = "br_open"
    /\ LET file == op[p].path
       IN  IF file \in DOMAIN fs
           THEN /\ ~FileLocked(file)
                /\ dbLock' = dbLock
                /\ IF Decodes(fs[file])
                   THEN LET doc == RefDoc(JsonLoad(fs[file]), file)
                        IN  /\ index' = DbUpsert(index, doc)
                            /\ Goto(p, "br_check",
                                    [op[p] EXCEPT !.refs = SetRef(@, doc)])
                   ELSE /\ index' = index
                        /\ Goto(p, "br_check", op[p])
           ELSE /\ Return(p, Outcome(op[p].name, op[p].collection_id, 0,
                                     "FileNotFoundError"))
                /\ dbLock' = dbLock
                /\ index' = index
    /\ fresh' = NoTable
    /\ UNCHANGED <<fs, clock, nextId>>
    /\ removed' = removed
    /\ Frame

\* lines 178-195: under the lock of the file, the file is opened, decoded
\* and upserted; a file that does not decode is skipped; open() raises
\* FileNotFoundError when the file went away after line 177
BrOpen(p) ==
    /\ pc[p] = "br_open"
    /\ LET file == op[p].path
       IN  IF file \in DOMAIN fs
           THEN /\ ~FileLocked(file)
                /\ dbLock' = dbLock
                /\ IF Decodes(fs[file])
                   THEN LET doc == RefDoc(JsonLoad(fs[file]), file)
                        IN  /\ index' = DbUpsert(index, doc)
                            /\ Goto(p, "br_check",
                                    [op[p] EXCEPT !.refs = SetRef(@, doc)])
                   ELSE /\ index' = index
                        /\ Goto(p, "br_check", op[p])
           ELSE /\ Return(p, Outcome(op[p].name, op[p].collection_id, 0,
                                     "FileNotFoundError"))
                /\ dbLock' = "free"
                /\ index' = index
    /\ fresh' = NoTable
    /\ UNCHANGED <<fs, clock, nextId>>
    /\ removed' = removed
    /\ Frame

\* __init__, lines 75-78: _build_refs is done and releases the index
\* lock; _cleanup_sources follows
InitScanned(p) ==
    /\ pc[p] = "br_check"
    /\ op[p].todo = {}
    /\ op[p].scan = "init"
    /\ dbLock' = "free"
    /\ Goto(p, "cl_begin", [op[p] EXCEPT !.refs = {}])
    /\ fresh' = NoTable
    /\ UNCHANGED <<fs, index, clock, nextId>>
    /\ removed' = removed
    /\ Frame

\* a cleanup pass that keeps the index lock when it is done
ClPasses_KeepsLock(p) ==
    /\ pc[p] = "br_check"
    /\ op[p].todo = {}
    /\ op[p].scan = "cleanup"
    /\ \E refs \in Orderings(op[p].refs), failing \in SUBSET DOMAIN fs :
          LET st == CleanupPasses([fs |-> fs, db |-> index],
                                  CollectionsOf(refs), refs,
                                  op[p].now, max_days, max_files, failing)
          IN  /\ \A f \in DOMAIN fs \ DOMAIN st.fs : ~FileLocked(f)
              /\ fs' = st.fs
              /\ index' = st.db
    /\ dbLock' = dbLock
    /\ IF op[p].name = "process_csv"
       THEN Goto(p, "pcs_open", op[p])
       ELSE Return(p, Outcome("construct", "none", 0, "ok"))
    /\ fresh' = NoTable
    /\ UNCHANGED <<clock, nextId>>
    /\ removed' = removed
    /\ Frame

\* _cleanup_sources, lines 239-266: the two passes, after which the
\* index lock is released
ClPasses(p) ==
    /\ pc[p] = "br_check"
    /\ op[p].todo = {}
    /\ op[p].scan = "cleanup"
    /\ \E refs \in Orderings(op[p].refs), failing \in SUBSET DOMAIN fs :
          LET st == CleanupPasses([fs |-> fs, db |-> index],
                                  CollectionsOf(refs), refs,
                                  op[p].now, max_days, max_files, failing)
          IN  /\ \A f \in DOMAIN fs \ DOMAIN st.fs : ~FileLocked(f)
              /\ fs' = st.fs
              /\ index' = st.db
    /\ dbLock' = "free"
    /\ IF op[p].name = "process_csv"
       THEN Goto(p, "pcs_open", op[p])
       ELSE Return(p, Outcome("construct", "none", 0, "ok"))
    /\ fresh' = NoTable
    /\ UNCHANGED <<clock, nextId>>
    /\ removed' = removed
    /\ Frame

\* `fresh` while process_csv has written the file of table `id` and not
\* yet returned
Publishing(id) == [id |-> 0, publishing |-> id]

\* process_csv opening table-<uuid 1>.json for every table
PcsOpen_OnePath(p) ==
    /\ pc[p] = "pcs_open"
    /\ fs' = [f \in DOMAIN fs \cup {1} |-> IF f = 1 THEN Truncated ELSE fs[f]]
    /\ Goto(p, "pcs_write", op[p])
    /\ fresh' = NoTable
    /\ UNCHANGED <<index, clock, nextId, dbLock>>
    /\ removed' = removed
    /\ Frame

\* process_csv, lines 517-519: the lock of the file is taken and
\* open(json_file, 'w') creates the file, empty
PcsOpen(p) ==
    /\ pc[p] = "pcs_open"
    /\ fs' = [f \in DOMAIN fs \cup {op[p].output.id} |->
                 IF f = op[p].output.id THEN Truncated ELSE fs[f]]
    /\ Goto(p, "pcs_write", op[p])
    /\ fresh' = NoTable
    /\ UNCHANGED <<index, clock, nextId, dbLock>>
    /\ removed' = removed
    /\ Frame

\* a process_csv that takes the index lock while it holds the lock of the
\* file it is writing
PcsWrite_UnderIndexLock(p) ==
    /\ pc[p] = "pcs_write"
    /\ dbLock = "free"
    /\ IF op[p].output.id \in DOMAIN fs
       THEN /\ fs' = WriteFile(fs, op[p].output)
            /\ written' = [id \in DOMAIN written \cup {op[p].output.id} |->
                              IF id = op[p].output.id THEN op[p].output
                              ELSE written[id]]
            /\ fresh' = Publishing(op[p].output.id)
       ELSE /\ UNCHANGED <<fs, written>>
            /\ fresh' = NoTable
    /\ Goto(p, "pcs_insert", op[p])
    /\ UNCHANGED <<index, clock, nextId, dbLock>>
    /\ removed' = removed
    /\ UNCHANGED <<max_days, max_files, csvVars, joinVars, utilVars>>

\* process_csv, line 520: json.dump completes, the file is closed and its
\* lock released; a file unlinked since it was opened stays unlinked
PcsWrite(p) ==
    /\ pc[p] = "pcs_write"
    /\ IF op[p].output.id \in DOMAIN fs
       THEN /\ fs' = WriteFile(fs, op[p].output)
            /\ written' = [id \in DOMAIN written \cup {op[p].output.id} |->
                              IF id = op[p].output.id THEN op[p].output
                              ELSE written[id]]
            /\ fresh' = Publishing(op[p].output.id)
       ELSE /\ UNCHANGED <<fs, written>>
            /\ fresh' = NoTable
    /\ Goto(p, "pcs_insert", op[p])
    /\ UNCHANGED <<index, clock, nextId, dbLock>>
    /\ removed' = removed
    /\ UNCHANGED <<max_days, max_files, csvVars, joinVars, utilVars>>

\* process_csv, lines 523-533: the reference is inserted and the table
\* returned
PcsInsert(p) ==
    /\ pc[p] = "pcs_insert"
    /\ dbLock = "free"
    /\ index' = DbInsert(index, RefDoc(op[p].output, op[p].output.id))
    /\ Return(p, [Outcome("process_csv", op[p].collection_id,
                          op[p].output.id, "ok")
                     EXCEPT !.table = op[p].output])
    /\ fresh' = IF fresh = Publishing(op[p].output.id) THEN op[p].output
                 ELSE NoTable
    /\ UNCHANGED <<fs, clock, nextId, dbLock>>
    /\ removed' = removed
    /\ Frame


\* `fresh` once the file of the table process_csv had just returned was
\* deleted out-of-band, and while list_sources, read_join_source and
\* remove_source are called for it in that order with nothing in between
Orphaned(collection_id, join_id, stage) ==
    [id |-> 0, collectionId |-> collection_id, orphaned |-> join_id,
     stage |-> stage]
IsOrphaned(fr) == "stage" \in DOMAIN fr

\* `fresh` after the query `name` for (c, id)
Queried(fr, name, c, id) ==
    IF ~IsOrphaned(fr) THEN fr
    ELSE IF fr.stage = "deleted" /\ name = "list_sources"
            /\ c = fr.collectionId
    THEN Orphaned(c, fr.orphaned, "listed")
    ELSE IF fr.stage = "listed" /\ name = "read_join_source"
            /\ c = fr.collectionId /\ id = fr.orphaned
    THEN Orphaned(c, id, "read")
    ELSE NoTable

\* `fresh` after remove_source(c, id) returned
Unreferenced(fr, c, id) ==
    IF IsOrphaned(fr) /\ fr.stage = "read" /\ c = fr.collectionId
       /\ id = fr.orphaned
    THEN Orphaned(c, id, "removed")
    ELSE NoTable

\* list_sources, lines 544-564, under the index lock
List(p) ==
    /\ pc[p] = "idle"
    /\ dbLock = "free"
    /\ \E c \in Collections :
          LET r == ListSources(index, fs, c)
          IN  /\ index' = r.db
              /\ Return(p, [Outcome("list_sources", c, 0, "ok")
                               EXCEPT !.listing = r.valid_sources,
                                      !.after = fresh])
              /\ fresh' = Queried(fresh, "list_sources", c, 0)
    /\ UNCHANGED <<fs, clock, nextId, dbLock>>
    /\ removed' = removed
    /\ Frame

\* read_join_source, lines 576-580: the id is checked and the path looked
\* up under the index lock
ReadFind(p) ==
    /\ pc[p] = "idle"
    /\ \E c \in Collections, id \in AskedIds :
          IF ~ValidId(id)
          THEN /\ Return(p, Outcome("read_join_source", "none", id,
                                    "ValueError"))
               /\ index' = index
               /\ fresh' = Queried(fresh, "read_join_source", "none", id)
          ELSE /\ dbLock = "free"
               /\ fresh' = Queried(fresh, "read_join_source", c, id)
               /\ LET r == FindSourcePath(index, fs, c, id)
                  IN  /\ index' = r.db
                      /\ IF r.status = "ok"
                         THEN Goto(p, "read_load",
                                   [NoOp EXCEPT !.name = "read_join_source",
                                                !.collection_id = c,
                                                !.join_id = id,
                                                !.path = r.path,
                                                !.after = fresh])
                         ELSE Return(p, [Outcome("read_join_source", c, id,
                                                 r.status)
                                            EXCEPT !.after = fresh])
    /\ UNCHANGED <<fs, clock, nextId, dbLock>>
    /\ removed' = removed
    /\ Frame

\* read_join_source, lines 583-587: under the lock of the file, the file
\* is opened and decoded
ReadLoad(p) ==
    /\ pc[p] = "read_load"
    /\ ~FileLocked(op[p].path)
    /\ LET o == Outcome("read_join_source", op[p].collection_id,
                        op[p].join_id, "ok")
           after == IF fresh = op[p].after THEN fresh ELSE NoTable
       IN  IF op[p].path \in DOMAIN fs
           THEN IF Decodes(fs[op[p].path])
                THEN Return(p, [o EXCEPT !.table = JsonLoad(fs[op[p].path]),
                                         !.after = after])
                ELSE Return(p, [o EXCEPT !.status = "JSONDecodeError",
                                         !.after = after])
           ELSE Return(p, [o EXCEPT !.status = "FileNotFoundError",
                                    !.after = after])
    /\ fresh' = Queried(fresh, "read_join_source", op[p].collection_id, 0)
    /\ UNCHANGED <<fs, index, clock, nextId, dbLock>>
    /\ removed' = removed
    /\ Frame

\* the objects perform_join is called with: a feature, and a collection
\* of two features
JoinObjects ==
    { [NoObject EXCEPT !.own =
          [NoFeature EXCEPT !.hasProperties = TRUE,
                            !.properties = (<<"i">> :> <<"1">>),
                            !.id = 1, !.geometry = 1]],
      [NoObject EXCEPT !.type = "FeatureCollection", !.hasFeatures = TRUE,
                       !.features =
          << [NoFeature EXCEPT !.hasProperties = TRUE,
                               !.properties = (<<"i">> :> <<"2">>),
                               !.id = 1, !.geometry = 1],
             [NoFeature EXCEPT !.hasProperties = TRUE,
                               !.properties = (<<"i">> :> <<"9">>),
                               !.id = 2, !.geometry = 2] >>] }

\* perform_join, lines 601-605: read_join_source checks the id and looks
\* the path up under the index lock
PjFind(p) ==
    /\ pc[p] = "idle"
    /\ \E c \in Collections, id \in AskedIds, x \in JoinObjects :
          IF ~ValidId(id)
          THEN /\ Return(p, [Outcome("perform_join", "none", id,
                                     "ValueError")
                                EXCEPT !.passed = x, !.features = x])
               /\ index' = index
               /\ fresh' = Queried(fresh, "perform_join", "none", id)
          ELSE /\ dbLock = "free"
               /\ fresh' = Queried(fresh, "perform_join", c, id)
               /\ LET r == FindSourcePath(index, fs, c, id)
                  IN  /\ index' = r.db
                      /\ IF r.status = "ok"
                         THEN Goto(p, "pj_load",
                                   [NoOp EXCEPT !.name = "perform_join",
                                                !.collection_id = c,
                                                !.join_id = id,
                                                !.path = r.path,
                                                !.features = x])
                         ELSE Return(p, [Outcome("perform_join", c, id,
                                                 r.status)
                                            EXCEPT !.passed = x,
                                                   !.features = x])
    /\ UNCHANGED <<fs, clock, nextId, dbLock>>
    /\ removed' = removed
    /\ Frame

\* perform_join, lines 605-629: read_join_source decodes the file, and
\* the features are joined in place
PjLoad(p) ==
    /\ pc[p] = "pj_load"
    /\ ~FileLocked(op[p].path)
    /\ LET o == [Outcome("perform_join", op[p].collection_id,
                         op[p].join_id, "ok")
                    EXCEPT !.passed = op[p].features,
                           !.features = op[p].features]
       IN  IF op[p].path \in DOMAIN fs
           THEN IF Decodes(fs[op[p].path])
                THEN LET r == PerformJoin(op[p].features,
                                          JsonLoad(fs[op[p].path]))
                     IN  Return(p, [o EXCEPT !.status = r.status,
                                             !.features = r.x])
                ELSE Return(p, [o EXCEPT !.status = "JSONDecodeError"])
           ELSE Return(p, [o EXCEPT !.status = "FileNotFoundError"])
    /\ fresh' = Queried(fresh, "perform_join", op[p].collection_id, 0)
    /\ UNCHANGED <<fs, index, clock, nextId, dbLock>>
    /\ removed' = removed
    /\ Frame

\* remove_source, lines 640-650: the id is checked and the path looked up
RmFind(p) ==
    /\ pc[p] = "idle"
    /\ \E c \in Collections, id \in AskedIds :
          LET o == Outcome("remove_source", c, id, "ok")
          IN  IF ~ValidId(id)
              THEN /\ Return(p, Outcome("remove_source", "none", id,
                                        "ValueError"))
                   /\ UNCHANGED <<index, removed>>
                   /\ fresh' = NoTable
              ELSE /\ dbLock = "free"
                   /\ fresh' = Unreferenced(fresh, c, id)
                   /\ LET r == FindSourcePath(index, fs, c, id)
                      IN  /\ index' = r.db
                          /\ IF r.status = "ok"
                             THEN /\ Goto(p, "rm_delete",
                                          [NoOp EXCEPT !.name = "remove_source",
                                                       !.collection_id = c,
                                                       !.join_id = id,
                                                       !.path = r.path])
                                  /\ removed' = removed
                             ELSE IF r.status = "JoinSourceMissingError"
                             THEN /\ Return(p, [o EXCEPT !.flag = TRUE])
                                  /\ Removed(c, id)
                             ELSE /\ Return(p, o)
                                  /\ removed' = removed
    /\ UNCHANGED <<fs, clock, nextId, dbLock>>
    /\ Frame

\* remove_source, line 653: _delete_source(source_path), which raises when
\* the unlink fails
RmDelete(p) ==
    /\ pc[p] = "rm_delete"
    /\ ~FileLocked(op[p].path)
    /\ \/ /\ fs' = IF op[p].path \in DOMAIN fs THEN Unlink(fs, op[p].path)
                   ELSE fs
          /\ Goto(p, "rm_unref", op[p])
       \/ /\ op[p].path \in DOMAIN fs
          /\ fs' = fs
          /\ Return(p, Outcome("remove_source", op[p].collection_id,
                               op[p].join_id, "OSError"))
    /\ fresh' = NoTable
    /\ UNCHANGED <<index, clock, nextId, dbLock>>
    /\ removed' = removed
    /\ Frame

\* remove_source returning True and leaving the reference in the index
RmUnref_KeepRef(p) ==
    /\ pc[p] = "rm_unref"
    /\ dbLock = "free"
    /\ index' = index
    /\ Return(p, [Outcome("remove_source", op[p].collection_id,
                          op[p].join_id, "ok") EXCEPT !.flag = TRUE])
    /\ Removed(op[p].collection_id, op[p].join_id)
    /\ fresh' = NoTable
    /\ UNCHANGED <<fs, clock, nextId, dbLock>>
    /\ Frame

\* remove_source, lines 656-662: the reference is removed, True returned
RmUnref(p) ==
    /\ pc[p] = "rm_unref"
    /\ dbLock = "free"
    /\ index' = DbRemove(index, op[p].collection_id, op[p].join_id)
    /\ Return(p, [Outcome("remove_source", op[p].collection_id,
                          op[p].join_id, "ok") EXCEPT !.flag = TRUE])
    /\ Removed(op[p].collection_id, op[p].join_id)
    /\ fresh' = NoTable
    /\ UNCHANGED <<fs, clock, nextId, dbLock>>
    /\ Frame

\* a file of source_dir is deleted by something else than a JoinManager
OutOfBandDelete ==
    /\ \E file \in DOMAIN fs :
          /\ fs' = Unlink(fs, file)
          /\ fresh' = IF fresh.id # 0 /\ fresh.id = file
                       THEN Orphaned(fresh.collectionId, file, "deleted")
                       ELSE NoTable
    /\ ret' = [q \in Procs |-> NoRet]
    /\ UNCHANGED <<index, clock, nextId, dbLock, pc, op>>
    /\ removed' = removed
    /\ Frame

\* a day passes
Tick ==
    /\ clock < MaxTime
    /\ clock' = clock + 1
    /\ ret' = [q \in Procs |-> NoRet]
    /\ UNCHANGED <<fs, index, nextId, dbLock, pc, op, fresh>>
    /\ removed' = removed
    /\ Frame

Call(p, cap) ==
    \/ PcsStart(p, cap) \/ ClBegin(p) \/ ClLock(p) \/ BrCheck(p) \/ BrOpen(p)
    \/ ClPasses(p) \/ PcsOpen(p) \/ PcsWrite(p) \/ PcsInsert(p)
    \/ Construct(p) \/ InitScanned(p)
    \/ List(p) \/ ReadFind(p) \/ ReadLoad(p)
    \/ PjFind(p) \/ PjLoad(p)
    \/ RmFind(p) \/ RmDelete(p) \/ RmUnref(p)

\* one caller at a time
Next == Call("p1", MaxIds) \/ OutOfBandDelete \/ Tick

Spec == InitStore /\ [][Next]_vars

\* callers whose operations overlap, creating MaxConcIds tables
NextConc ==
    \/ \E p \in Procs : Call(p, MaxConcIds)
    \/ OutOfBandDelete
    \/ Tick

SpecConc == InitStore /\ [][NextConc]_vars

\* SpecRetain: a JoinManager on a source_dir that earlier runs of the
\* server, under another retention configuration, left with stored tables
\* most tables in source_dir
MaxSources == 3
\* (max_days, max_files) of the manager
RetainConfigs == {<<0, 0>>, <<0, 1>>, <<1, 0>>, <<1, 1>>, <<0, 2>>}

\* the table an earlier process_csv(c, ...) stored at time t
StoredTable(c, id, t) ==
    Output(Parsed[CHOOSE f \in Accepted : TRUE], c, id, GetCurrentDatetime(t))

InitRetain ==
    /\ \E k \in 0..MaxSources :
          \E cs \in [1..k -> Collections], ts \in [1..k -> 0..MaxTime] :
             /\ \A i \in 1..(k - 1) : ts[i] <= ts[i + 1]
             /\ fs = [i \in 1..k |-> JsonDump(StoredTable(cs[i], i, ts[i]))]
             /\ index = [i \in 1..k |->
                            RefDoc(StoredTable(cs[i], i, ts[i]), i)]
             /\ written = [i \in 1..k |-> StoredTable(cs[i], i, ts[i])]
             /\ nextId = k + 1
    /\ clock = MaxTime
    /\ dbLock = "free"
    /\ \E config \in RetainConfigs :
          max_days = config[1] /\ max_files = config[2]
    /\ pc = [p \in Procs |-> "idle"]
    /\ op = [p \in Procs |-> NoOp]
    /\ ret = [p \in Procs |-> NoRet]
    /\ fresh = NoTable
    /\ removed = {}
    /\ CSVIdle
    /\ JoinIdle
    /\ UtilIdle

\* construction, process_csv and the queries of one caller
NextRetain ==
    \/ PcsStart("p1", MaxSources) \/ ClBegin("p1") \/ ClLock("p1")
    \/ BrCheck("p1") \/ BrOpen("p1") \/ ClPasses("p1")
    \/ PcsOpen("p1") \/ PcsWrite("p1") \/ PcsInsert("p1")
    \/ Construct("p1") \/ InitScanned("p1")
    \/ List("p1") \/ ReadFind("p1") \/ ReadLoad("p1")

SpecRetain == InitRetain /\ [][NextRetain]_vars

\* SpecCreate: callers that only create tables, their calls overlapping,
\* on a source_dir nothing else touches
\* most tables created
MaxCreates == 2

\* the steps of a process_csv that has started
Running(p) ==
    \/ ClBegin(p) \/ ClLock(p) \/ BrCheck(p) \/ BrOpen(p) \/ ClPasses(p)
    \/ PcsOpen(p) \/ PcsWrite(p) \/ PcsInsert(p)

NextCreate ==
    \/ \E p \in Procs : PcsStart(p, MaxCreates) \/ Running(p)
    \/ Tick

\* a call that has started keeps running: its thread is scheduled
SpecCreate ==
    InitStore /\ [][NextCreate]_vars /\ \A p \in Procs : WF_vars(Running(p))


\* SpecShare: callers that create, read and remove tables, their
\* operations overlapping, on a source_dir nothing else touches
NextShare ==
    \E p \in Procs :
        \/ PcsStart(p, MaxCreates) \/ Running(p)
        \/ ReadFind(p) \/ ReadLoad(p)
        \/ RmFind(p) \/ RmDelete(p) \/ RmUnref(p)

SpecShare == InitStore /\ [][NextShare]_vars

\* the steps of the construction of a JoinManager
Building(p) ==
    \/ Construct(p) \/ BrCheck(p) \/ BrOpen(p) \/ InitScanned(p)
    \/ ClBegin(p) \/ ClLock(p) \/ ClPasses(p)

\* SpecRebuild: a JoinManager constructed on a source_dir that holds
\* stored tables, files under other names and files that do not decode,
\* with an index that lost its latest entries
\* most stored tables
MaxTables == 2
\* names _SOURCE_FILE_PATTERN rejects
OtherNames == {0, -1}
\* what a file table-<uuid>.json that is no table holds, if there is one
Undecodable == {<<>>, <<Truncated>>, <<EmptyObject>>}

InitRebuild ==
    /\ \E k \in 0..MaxTables :
          \E cs \in [1..k -> Collections], m \in 0..k,
             others \in SUBSET OtherNames, bad \in Undecodable :
             LET tables == [i \in 1..k |-> StoredTable(cs[i], i, 0)]
                 Content(f) ==
                    IF f \in 1..k THEN JsonDump(tables[f])
                    ELSE IF f = k + 1 THEN bad[1]
                    ELSE IF f = 0 THEN JsonDump(StoredTable("c1", k + 2, 0))
                    ELSE EmptyObject
             IN  /\ fs = [f \in (1..k) \cup
                                {f \in {k + 1} : bad # <<>>} \cup others |->
                             Content(f)]
                 /\ index = [i \in 1..m |-> RefDoc(tables[i], i)]
                 /\ written = tables
                 /\ nextId = k + 3
    /\ clock = 0
    /\ dbLock = "free"
    /\ \E config \in Configs : max_days = config[1] /\ max_files = config[2]
    /\ pc = [p \in Procs |-> "idle"]
    /\ op = [p \in Procs |-> NoOp]
    /\ ret = [p \in Procs |-> NoRet]
    /\ fresh = NoTable
    /\ removed = {}
    /\ CSVIdle
    /\ JoinIdle
    /\ UtilIdle

SpecRebuild == InitRebuild /\ [][Building("p1")]_vars

\* SpecSweep: process_csv on a source_dir with stored tables, of which
\* files are deleted out-of-band
NextSweep == PcsStart("p1", MaxSources) \/ Running("p1") \/ OutOfBandDelete

SpecSweep == InitRetain /\ [][NextSweep]_vars

\* SpecStall: a caller whose operations keep running, next to a
\* constructor on the same source_dir that may stop for good at any step,
\* the index lock in its hands

NextStall == Call("p1", MaxConcIds) \/ Building("p2") \/ Tick

SpecStall ==
    InitStore /\ [][NextStall]_vars /\ WF_vars(Call("p1", MaxConcIds))

\* SpecLive: two callers running every operation; a caller that has started an operation
\* keeps running: each of its steps is taken when it is possible again and
\* again (a waiter polls its lock until it gets it)
Continue(p) ==
    \/ ClBegin(p) \/ ClLock(p) \/ BrCheck(p) \/ BrOpen(p) \/ InitScanned(p)
    \/ ClPasses(p) \/ PcsOpen(p) \/ PcsWrite(p) \/ PcsInsert(p)
    \/ ReadLoad(p) \/ PjLoad(p) \/ RmDelete(p) \/ RmUnref(p)

NextLive == \E p \in Procs : Call(p, MaxConcIds)

SpecLive ==
    InitStore /\ [][NextLive]_vars /\ \A p \in Procs : SF_vars(Continue(p))

-----------------------------------------------------------------------------
(* Claims about the store *)

\* p has just finished read_join_source(c, id) for the table process_csv
\* had just returned
ReadOfFresh(p) ==
    /\ ret[p].name = "read_join_source"
    /\ ret[p].after.id # 0
    /\ ret[p].join_id = ret[p].after.id

\* C1: a read_join_source(c, t.id) that directly follows the process_csv
\* that returned t succeeds and returns a table equal to t
Thm_C1_RoundTrip ==
    \A p \in Procs :
        (ReadOfFresh(p) /\ ret[p].collection_id = ret[p].after.collectionId)
            => /\ ret[p].status = "ok"
               /\ ret[p].table = ret[p].after

\* a table with a stripped key, an unstripped cell and a None cell was
\* written, and read back while another source was stored
Wit_C1_RoundTrip ==
    \E p \in Procs :
        /\ ReadOfFresh(p)
        /\ ret[p].collection_id = ret[p].after.collectionId
        /\ ret[p].status = "ok"
        /\ ret[p].table.numberOfRows = 2
        /\ ret[p].table.data[<<"1">>] = <<<<" ", "x">>>>
        /\ ret[p].table.data[<<"2">>] = <<NoneVal>>
        /\ Cardinality(DOMAIN fs) = 2

\* C2: after process_csv(c, ...) returned t, list_sources(c) has t.id,
\* list_sources(c') has not, read_join_source(c', t.id) raises
\* JoinSourceNotFoundError, and t stays readable under c
Thm_C2_CollectionScope ==
    /\ \A p \in Procs :
          /\ (ret[p].name = "list_sources" /\ ret[p].after.id # 0)
                => (ret[p].after.id \in DOMAIN ret[p].listing
                      <=> ret[p].collection_id = ret[p].after.collectionId)
          /\ ReadOfFresh(p)
                => ret[p].status =
                      IF ret[p].collection_id = ret[p].after.collectionId
                      THEN "ok" ELSE "JoinSourceNotFoundError"
    /\ fresh.id # 0 =>
          \A c \in Collections :
              /\ fresh.id \in DOMAIN ListSources(index, fs, c).valid_sources
                    <=> c = fresh.collectionId
              /\ FindSourcePath(index, fs, c, fresh.id).status =
                    IF c = fresh.collectionId THEN "ok"
                    ELSE "JoinSourceNotFoundError"

\* t was read under the other collection, which has a source of its own
Wit_C2_CollectionScope ==
    \E p \in Procs :
        /\ ReadOfFresh(p)
        /\ ret[p].collection_id # ret[p].after.collectionId
        /\ ret[p].status = "JoinSourceNotFoundError"
        /\ fresh = ret[p].after
        /\ \E i \in DOMAIN index :
              /\ index[i].collectionId = ret[p].collection_id
              /\ index[i].ref \in DOMAIN fs

\* C3: once remove_source(c, id) has returned True, the file of id does
\* not exist, list_sources(c) has no id and read_join_source(c, id) raises
\* JoinSourceNotFoundError, in every later state
CE_C3_DeletionFinal ==
    \A pair \in removed :
        /\ pair[2] \notin DOMAIN fs
        /\ pair[2] \notin DOMAIN ListSources(index, fs, pair[1]).valid_sources
        /\ FindSourcePath(index, fs, pair[1], pair[2]).status =
              "JoinSourceNotFoundError"

\* the sources list_sources would return, per collection
Listings == [c \in Collections |-> ListSources(index, fs, c).valid_sources]

\* C4: a process_csv that raises has created, written and deleted no file,
\* has left the index as it was, and list_sources returns what it returned
\* before the call
Thm_C4_FailedIngestFrame ==
    [][\A p \in Procs :
          (pc[p] = "idle" /\ ret'[p].name = "process_csv"
              /\ ret'[p].status # "ok")
             => /\ fs' = fs
                /\ index' = index
                /\ Listings' = Listings]_vars

\* process_csv raised while a source older than max_days was stored
Wit_C4_FailedIngestFrame ==
    /\ ret["p1"].name = "process_csv"
    /\ ret["p1"].status = "ValueError"
    /\ max_days > 0
    /\ \E i \in DOMAIN index :
          /\ index[i].ref \in DOMAIN fs
          /\ clock - StrToDatetime(index[i].timeStamp) > max_days

-----------------------------------------------------------------------------
(* Claims about retention *)

\* the step of p that runs the two passes of _cleanup_sources
PassStep(p) ==
    /\ pc[p] = "br_check"
    /\ op[p].scan = "cleanup"
    /\ op[p].todo = {}
    /\ pc'[p] # "br_check"

\* no unlink failed in the passes p has just run
PassWithoutFailure(p) ==
    \E refs \in Orderings(op[p].refs) :
        LET st == CleanupPasses([fs |-> fs, db |-> index],
                                CollectionsOf(refs), refs, op[p].now,
                                max_days, max_files, {})
        IN  fs' = st.fs /\ index' = st.db

\* the files of the tables of collection c, and the time in a file
FilesOf(files, c) ==
    {f \in DOMAIN files :
        Decodes(files[f]) /\ JsonLoad(files[f]).collectionId = c}
TimeOf(files, f) == StrToDatetime(JsonLoad(files[f]).timeStamp)
\* no table in `files` is older than max_days at `now`
NoneOverAge(files, now) ==
    \A f \in DOMAIN files :
        Decodes(files[f]) => now - TimeOf(files, f) <= max_days

\* C12: after a cleanup pass without failed deletion under max_files = N > 0
\* every collection has at most N sources, on disk and in list_sources
CE_C12_CountCap ==
    [][\A p \in Procs :
          (PassStep(p) /\ PassWithoutFailure(p) /\ max_files > 0) =>
             \A c \in Collections :
                /\ Cardinality(FilesOf(fs', c)) <= max_files
                /\ Cardinality(DOMAIN ListSources(index', fs', c).valid_sources)
                      <= max_files]_vars

\* C13: a cleanup pass over a collection with more than max_files = N > 0
\* sources keeps exactly N of them, none older than a deleted one
CE_C13_KeepsNewest ==
    [][\A p \in Procs :
          (PassStep(p) /\ PassWithoutFailure(p) /\ max_files > 0
             /\ (max_days > 0 => NoneOverAge(fs, op[p].now))) =>
             \A c \in Collections :
                Cardinality(FilesOf(fs, c)) > max_files =>
                   /\ Cardinality(FilesOf(fs', c)) = max_files
                   /\ FilesOf(fs', c) \subseteq FilesOf(fs, c)
                   /\ \A kept \in FilesOf(fs', c),
                         gone \in FilesOf(fs, c) \ FilesOf(fs', c) :
                         TimeOf(fs, gone) <= TimeOf(fs, kept)]_vars

\* a timestamp more than max_days before `now`
OverAge(timeStamp, now) == now - StrToDatetime(timeStamp) > max_days

\* C14: after a cleanup pass without failed deletion under max_days = D > 0
\* no source older than D days is left, as a file or as an index entry, and
\* a read of such a source raises JoinSourceNotFoundError
CE_C14_AgeCap ==
    [][\A p \in Procs :
          (PassStep(p) /\ PassWithoutFailure(p) /\ max_days > 0) =>
             /\ \A f \in DOMAIN fs' :
                   ~OverAge(JsonLoad(fs'[f]).timeStamp, op[p].now)
             /\ \A i \in DOMAIN index' :
                   ~OverAge(index'[i].timeStamp, op[p].now)
             /\ \A i \in DOMAIN index :
                   OverAge(index[i].timeStamp, op[p].now) =>
                      FindSourcePath(index', fs', index[i].collectionId,
                                     index[i].id).status
                         = "JoinSourceNotFoundError"]_vars

\* the positions of a caller inside _build_refs and _cleanup_sources
CleanupPcs == {"cl_begin", "cl_lock", "br_check", "br_open"}

\* C15: a cap of 0 is no cap: while a cleanup pass runs at construction or
\* inside process_csv, and each cap is either 0 or not exceeded, no file is
\* deleted and no index entry of a source whose file exists is removed
Thm_C15_ZeroIsNoCap ==
    [][\A p \in Procs :
          (/\ pc[p] \in CleanupPcs
           /\ max_days = 0 \/ NoneOverAge(fs, clock)
           /\ max_files = 0
                \/ \A c \in Collections :
                      Cardinality(FilesOf(fs, c)) <= max_files) =>
             /\ fs' = fs
             /\ \A i \in DOMAIN index :
                   index[i].ref \in DOMAIN fs =>
                      \E j \in DOMAIN index' : index'[j] = index[i]]_vars

\* the constructor has run its cleanup pass with both caps 0 over three
\* tables of a collection, two days old and younger
Wit_C15_ZeroIsNoCap ==
    /\ ret["p1"].name = "construct"
    /\ ret["p1"].status = "ok"
    /\ max_days = 0
    /\ max_files = 0
    /\ Cardinality(FilesOf(fs, "c1")) = 3
    /\ \E f, g \in DOMAIN fs :
          clock - TimeOf(fs, f) >= 2 /\ clock - TimeOf(fs, g) = 0
    /\ Len(index) = 3

-----------------------------------------------------------------------------
(* Claims about orphans and ids *)

\* p has just returned from the call `name` of the scenario: process_csv
\* returned t, t's file was deleted out-of-band, then list_sources(c),
\* read_join_source(c, t.id), remove_source(c, t.id)
InScenario(p, name, stage) ==
    /\ IsOrphaned(fresh)
    /\ fresh.stage = stage
    /\ ret[p].name = name

\* the first two calls of the scenario: a listing without t.id, then
\* JoinSourceNotFoundError
ListedThenRead(p) ==
    /\ InScenario(p, "list_sources", "listed") =>
          fresh.orphaned \notin DOMAIN ret[p].listing
    /\ InScenario(p, "read_join_source", "read") =>
          ret[p].status = "JoinSourceNotFoundError"

\* C16: in the orphan-reap scenario list_sources(c) leaves t.id out,
\* read_join_source(c, t.id) raises JoinSourceNotFoundError and
\* remove_source(c, t.id) returns True
CE_C16_OrphanScenario ==
    \A p \in Procs :
        /\ ListedThenRead(p)
        /\ InScenario(p, "remove_source", "removed") =>
              ret[p].status = "ok" /\ ret[p].flag = TRUE

\* C16, as the code has it: list_sources(c) leaves t.id out and reaps the
\* entry, read_join_source(c, t.id) raises JoinSourceNotFoundError, and
\* remove_source(c, t.id), finding no entry, returns False
Thm_C16_OrphanScenario ==
    \A p \in Procs :
        /\ ListedThenRead(p)
        /\ InScenario(p, "remove_source", "removed") =>
              ret[p].status = "ok" /\ ret[p].flag = FALSE

\* remove_source has returned at the end of the scenario, next to another
\* stored table
Wit_C16_OrphanScenario ==
    /\ InScenario("p1", "remove_source", "removed")
    /\ ret["p1"].join_id = fresh.orphaned
    /\ ret["p1"].flag = FALSE
    /\ fresh.orphaned \notin DOMAIN fs
    /\ Cardinality(DOMAIN fs) = 1

\* p's remove_source(c, id) returns with this step
RemoveReturns(p) ==
    /\ ret'[p].name = "remove_source"
    /\ ret'[p].status = "ok"

\* C17: remove_source(c, id) with a valid id returns False exactly when
\* the index has no entry for (c, id) at the call, True when the entry's
\* file was gone and True when its file was there, which it then unlinks;
\* in each case the index has no entry for (c, id) afterwards
Thm_C17_RemoveResult ==
    [][\A p \in Procs :
          /\ (pc[p] = "idle" /\ RemoveReturns(p)) =>
                LET c == ret'[p].collection_id
                    id == ret'[p].join_id
                IN  /\ ret'[p].flag = FALSE <=> ~DbHas(index, c, id)
                    /\ ret'[p].flag = TRUE =>
                          DbGet(index, c, id).ref \notin DOMAIN fs
                    /\ ~DbHas(index', c, id)
                    /\ fs' = fs
          /\ (pc[p] = "idle" /\ pc'[p] = "rm_delete") =>
                /\ DbHas(index, op'[p].collection_id, op'[p].join_id)
                /\ op'[p].path \in DOMAIN fs
                /\ op'[p].path
                     = DbGet(index, op'[p].collection_id, op'[p].join_id).ref
          /\ (pc[p] = "rm_delete" /\ pc'[p] = "rm_unref") =>
                op[p].path \notin DOMAIN fs'
          /\ (pc[p] \in {"rm_delete", "rm_unref"} /\ RemoveReturns(p)) =>
                /\ pc[p] = "rm_unref"
                /\ ret'[p].flag = TRUE
                /\ op[p].path \notin DOMAIN fs'
                /\ ~DbHas(index', op[p].collection_id, op[p].join_id)]_vars

\* remove_source returns False for a table for which it returned True
\* before, next to another stored table
Wit_C17_RemoveResult ==
    /\ ret["p1"].name = "remove_source"
    /\ ret["p1"].status = "ok"
    /\ ret["p1"].flag = FALSE
    /\ <<ret["p1"].collection_id, ret["p1"].join_id>> \in removed
    /\ ret["p1"].join_id \notin DOMAIN fs
    /\ Cardinality(DOMAIN fs) = 1
    /\ Len(index) = 1

\* C18: read_join_source(c, id) raises JoinSourceMissingError exactly when
\* the index has an entry for (c, id) whose file is absent, and has then
\* removed the entry, so that the next read raises
\* JoinSourceNotFoundError; it raises JoinSourceNotFoundError exactly when
\* the index has no entry, and then changes nothing
Thm_C18_OrphanReapedOnRead ==
    [][\A p \in Procs :
          (/\ pc[p] = "idle"
           /\ ret'[p].name = "read_join_source"
           /\ ret'[p].status # "ValueError") =>
             LET c == ret'[p].collection_id
                 id == ret'[p].join_id
             IN  /\ ret'[p].status = "JoinSourceNotFoundError"
                       <=> ~DbHas(index, c, id)
                 /\ ret'[p].status = "JoinSourceMissingError"
                       <=> /\ DbHas(index, c, id)
                           /\ DbGet(index, c, id).ref \notin DOMAIN fs
                 /\ ret'[p].status = "JoinSourceNotFoundError" =>
                       index' = index /\ fs' = fs
                 /\ ret'[p].status = "JoinSourceMissingError" =>
                       /\ ~DbHas(index', c, id)
                       /\ fs' = fs
                       /\ FindSourcePath(index', fs', c, id).status
                             = "JoinSourceNotFoundError"]_vars

\* a read has just found the entry of a deleted file and removed it,
\* while another table stays stored
Wit_C18_OrphanReapedOnRead ==
    /\ ret["p1"].name = "read_join_source"
    /\ ret["p1"].status = "JoinSourceMissingError"
    /\ ~DbHas(index, ret["p1"].collection_id, ret["p1"].join_id)
    /\ ret["p1"].join_id \notin DOMAIN fs
    /\ Len(index) = 1
    /\ index[1].ref \in DOMAIN fs

\* the operations that take a join id
TakesId == {"read_join_source", "remove_source", "perform_join"}

\* C19: read_join_source, remove_source and perform_join called with an
\* id that is not a UUID string (the id 0) raise ValueError, leave index and files
\* unchanged and, for perform_join, the passed features as they were; no
\* such call gets as far as the file of a table
Thm_C19_InvalidId ==
    [][\A p \in Procs :
          /\ (/\ pc[p] = "idle"
              /\ ret'[p].name \in TakesId
              /\ ret'[p].join_id = 0) =>
                /\ ret'[p].status = "ValueError"
                /\ index' = index
                /\ fs' = fs
                /\ ret'[p].features = ret'[p].passed
          /\ (pc[p] = "idle" /\ op'[p].name \in TakesId) =>
                op'[p].join_id # 0]_vars

\* perform_join on a feature collection has raised ValueError for the id
\* while a table is stored
Wit_C19_InvalidId ==
    /\ ret["p1"].name = "perform_join"
    /\ ret["p1"].status = "ValueError"
    /\ ret["p1"].join_id = 0
    /\ ret["p1"].passed.hasFeatures
    /\ ret["p1"].features = ret["p1"].passed
    /\ \E i \in DOMAIN index : index[i].ref \in DOMAIN fs

\* C20: the index holds at most one document per (collectionId, id)
CE_C20_IndexUnique ==
    \A i, j \in DOMAIN index :
        (index[i].collectionId = index[j].collectionId
           /\ index[i].id = index[j].id) => i = j

-----------------------------------------------------------------------------
(* Claims about publication and concurrent callers *)

\* C21: a process_csv that returns has published the file of the new table
\* and its index entry: at the moment it returns, whatever process_csv,
\* cleanup pass or index rebuild ran meanwhile, the file of the new id
\* exists and the index refers to it
CE_C21_AtomicPublication ==
    \A p \in Procs :
        (ret[p].name = "process_csv" /\ ret[p].status = "ok") =>
            /\ DbHas(index, ret[p].collection_id, ret[p].join_id)
            /\ ret[p].join_id \in DOMAIN fs

\* C22: no reader sees a source that remove_source is deleting as 'index
\* entry present, file absent': once remove_source(c, s) has unlinked the
\* file of s, a read_join_source(c, s) that another caller starts does
\* not find the entry of s without its file (JoinSourceMissingError)
CE_C22_DestroyedTogether ==
    [][\A q \in Procs :
          (/\ pc[q] = "rm_delete"
           /\ pc'[q] = "rm_unref"
           /\ op[q].path \in DOMAIN fs
           /\ op[q].path \notin DOMAIN fs') =>
             ~(/\ dbLock' = "free"
               /\ \E p \in Procs \ {q} : pc'[p] = "idle"
               /\ FindSourcePath(index', fs', op[q].collection_id,
                                 op[q].join_id).status
                     = "JoinSourceMissingError")]_vars

\* C23: no permanent stall: an operation that waits for the index lock or
\* for the lock of a file returns or raises in the end, also when the
\* holder of the lock never releases it
CE_C23_NoPermanentStall == (pc["p1"] # "idle") ~> (pc["p1"] = "idle")

\* C24: in every interleaving, a read_join_source(c, id) that returns
\* returns the complete table the process_csv that created id returns, and
\* no step changes the content of a table file once it is written
Thm_C24_ReadsConsistent ==
    [][/\ \A p \in Procs :
            (ret'[p].name = "read_join_source" /\ ret'[p].status = "ok") =>
               /\ ret'[p].join_id \in DOMAIN written'
               /\ ret'[p].table = written'[ret'[p].join_id]
               /\ ret'[p].table.collectionId = ret'[p].collection_id
       /\ \A p \in Procs :
            (/\ ret'[p].name = "process_csv"
             /\ ret'[p].status = "ok"
             /\ ret'[p].join_id \in DOMAIN written') =>
               written'[ret'[p].join_id] = ret'[p].table
       /\ \A f \in DOMAIN fs \cap DOMAIN fs' :
            fs[f] # Truncated => fs'[f] = fs[f]]_vars

\* a caller has read the table of a process_csv that has not returned yet,
\* its file in source_dir next to the file of another table
Wit_C24_ReadsConsistent ==
    /\ ret["p2"].name = "read_join_source"
    /\ ret["p2"].status = "ok"
    /\ pc["p1"] = "pcs_insert"
    /\ op["p1"].output = ret["p2"].table
    /\ Cardinality(DOMAIN fs) = 2

\* the positions of a process_csv that has started
CreatePcs ==
    {"cl_begin", "cl_lock", "br_check", "br_open", "pcs_open", "pcs_write",
     "pcs_insert"}

\* C25: process_csv calls with valid input that run concurrently, and
\* nothing else, all return a table, none raises, and the ids of calls
\* that overlap differ from each other and from every id in use
Thm_C25_ConcurrentCreate ==
    /\ [][\A p \in Procs :
             (pc[p] \in CreatePcs /\ pc'[p] = "idle") =>
                /\ ret'[p].name = "process_csv"
                /\ ret'[p].status = "ok"
                /\ ret'[p].table.id = ret'[p].join_id
                /\ \A q \in Procs \ {p} :
                      pc[q] \in CreatePcs =>
                         op[q].output.id # ret'[p].join_id]_vars
    /\ [][\A p \in Procs :
             (pc[p] = "idle" /\ pc'[p] \in CreatePcs) =>
                /\ op'[p].output.id \notin DOMAIN fs
                /\ \A i \in DOMAIN index : index[i].id # op'[p].output.id]_vars
    /\ \A p \in Procs : (pc[p] \in CreatePcs) ~> (pc[p] = "idle")

\* a call returns its table while the other, which has written its file,
\* has not returned yet
Wit_C25_ConcurrentCreate ==
    /\ ret["p1"].name = "process_csv"
    /\ ret["p1"].status = "ok"
    /\ pc["p2"] = "pcs_insert"
    /\ op["p2"].output.id < ret["p1"].join_id
    /\ DOMAIN fs = {1, 2}

-----------------------------------------------------------------------------
(* Claims about the index rebuild and the cleanup pass *)

\* _build_refs of p has gone through source_dir
RebuildDone(p) == pc[p] = "br_check" /\ op[p].todo = {}

\* C26: after _build_refs the index has the entry {id, collectionId,
\* timeStamp, joinSource, ref} of every file table-<uuid>.json that
\* decodes; files under other names and files that do not decode are
\* skipped without error and not indexed; the rebuild that follows with
\* source_dir unchanged leaves the index as it is
Thm_C26_IndexRebuild ==
    /\ [](\A p \in Procs :
            RebuildDone(p) =>
               \A f \in DOMAIN fs :
                  IF MatchesPattern(f) /\ Decodes(fs[f])
                  THEN \E i \in DOMAIN index :
                          /\ index[i] = RefDoc(JsonLoad(fs[f]), f)
                          /\ DOMAIN index[i] = {"id", "collectionId",
                                                "timeStamp", "joinSource",
                                                "ref"}
                  ELSE \A i \in DOMAIN index : index[i].ref # f)
    /\ [][\A p \in Procs :
             (pc[p] \in {"br_check", "br_open"} /\ pc'[p] = "idle") =>
                ret'[p].status = "ok"]_vars
    /\ [][\A p \in Procs :
             (pc[p] \in {"br_check", "br_open"} /\ op[p].scan = "cleanup"
                /\ pc'[p] \in {"br_check", "br_open"}) =>
                index' = index]_vars

\* a constructor without caps has returned: source_dir holds two tables,
\* a file table-<uuid>.json that does not decode and two files under other
\* names, one of them with a table in it, and the index the two tables
Wit_C26_IndexRebuild ==
    /\ ret["p1"].name = "construct"
    /\ ret["p1"].status = "ok"
    /\ max_files = 0
    /\ OtherNames \subseteq DOMAIN fs
    /\ Decodes(fs[0])
    /\ \E f \in DOMAIN fs : MatchesPattern(f) /\ ~Decodes(fs[f])
    /\ Cardinality({f \in DOMAIN fs : MatchesPattern(f) /\ Decodes(fs[f])}) = 2
    /\ Len(index) = 2

\* C27: the cleanup pass of a process_csv runs after the file and the
\* index entry of the new table are written, so that the new source is
\* among those the caps are applied to; a process_csv that raises runs no
\* cleanup pass
CE_C27_CleanupAtEnd ==
    [][\A p \in Procs :
          /\ (PassStep(p) /\ op[p].name = "process_csv") =>
                /\ op[p].output.id \in DOMAIN fs
                /\ DbHas(index, op[p].collection_id, op[p].output.id)
          /\ (ret'[p].name = "process_csv" /\ ret'[p].status # "ok") =>
                ~PassStep(p) /\ fs' = fs /\ index' = index]_vars

\* C28: the count pass works on what the age pass left: in a cleanup pass
\* with max_days > 0 and max_files = N > 0, no source that is not older
\* than max_days is deleted when at most N sources of its collection are
\* not older than max_days
CE_C28_CountAfterAge ==
    [][\A p \in Procs :
          (PassStep(p) /\ max_days > 0 /\ max_files > 0) =>
             \A c \in Collections :
                LET young == {f \in FilesOf(fs, c) :
                                 op[p].now - TimeOf(fs, f) <= max_days}
                IN  Cardinality(young) <= max_files =>
                       young \subseteq DOMAIN fs']_vars

\* C29: the cleanup pass reaps orphans: when a pass of _cleanup_sources is
\* done, at construction or inside process_csv, the index has no entry, of
\* any collection, whose file is absent
CE_C29_PassReapsOrphans ==
    [][\A p \in Procs :
          PassStep(p) =>
             \A i \in DOMAIN index' : index'[i].ref \in DOMAIN fs']_vars

\* C30: a retention delete is best effort: when the unlink of a stale
\* source fails the cleanup pass does not raise and goes on, the file and
\* the index entry of that source stay, so that the next pass finds it
\* again; the entry of a source goes with its file; and for a stale source
\* whose file is already gone the delete succeeds and the entry is removed
Thm_C30_BestEffortDelete ==
    [][\A p \in Procs :
          PassStep(p) =>
             /\ \/ pc'[p] = "pcs_open"
                \/ ret'[p].name = "construct" /\ ret'[p].status = "ok"
             /\ \A d \in op[p].refs :
                   /\ (d.ref \in DOMAIN fs /\ d.ref \in DOMAIN fs') =>
                         \E i \in DOMAIN index' : index'[i] = d
                   /\ (d.ref \in DOMAIN fs /\ d.ref \notin DOMAIN fs') =>
                         ~DbHas(index', d.collectionId, d.id)
                   /\ (d.ref \notin DOMAIN fs /\ max_days > 0
                         /\ OverAge(d.timeStamp, op[p].now)) =>
                         ~DbHas(index', d.collectionId, d.id)]_vars

\* the cleanup pass of a process_csv under max_days = 1, max_files = 1 is
\* done: the unlink of a source over age failed in the age pass, the source
\* is left with its file and its entry, and the count pass that followed
\* deleted a source of the same collection that is not over age
Wit_C30_BestEffortDelete ==
    /\ pc["p1"] = "pcs_open"
    /\ max_days = 1
    /\ max_files = 1
    /\ \E d, e \in op["p1"].refs :
          /\ d.collectionId = e.collectionId
          /\ OverAge(d.timeStamp, op["p1"].now)
          /\ ~OverAge(e.timeStamp, op["p1"].now)
          /\ d.ref \in DOMAIN fs
          /\ \E i \in DOMAIN index : index[i] = d
          /\ e.ref \notin DOMAIN fs
          /\ ~DbHas(index, e.collectionId, e.id)

-----------------------------------------------------------------------------
(* Claims about the data start row and incomplete features *)

\* the non-blank records at physical line DataStartRow or later
PhysicalDataLines ==
    {i \in DataStartRow..Len(TheLines) : TheLines[i] # <<>> /\ ~BlankRow(i)}

\* C31: csvDataStartRow is a physical line number: for 1 <= csvHeaderRow <
\* csvDataStartRow <= number of lines the skipping of the rows between the
\* header and the data start never fails, and a successful process_csv has
\* ingested exactly the non-blank records at physical line csvDataStartRow
\* or later
CE_C31_PhysicalStartRow ==
    (/\ result.status # "none"
     /\ 1 <= HeaderRow
     /\ HeaderRow < DataStartRow
     /\ DataStartRow <= Len(TheLines)) =>
        /\ ~(result.status = "error" /\ result.error = "StopIteration")
        /\ result.status = "ok" =>
              DOMAIN result.table.data = {KeyOf(i) : i \in PhysicalDataLines}

\* a feature without a properties member, or whose properties lack the
\* table's collectionKey
Incomplete(f) ==
    ~f.hasProperties \/ joinTable.collectionKey \notin DOMAIN f.properties

\* C32: perform_join on an object with an incomplete feature raises
\* nothing; the incomplete feature gets joined = False and no property, and
\* every other feature of the object is processed
CE_C32_IncompleteFeatures ==
    (joins = 1 /\ \E i \in DOMAIN ItemsOf(before) : Incomplete(ItemsOf(before)[i])) =>
        /\ joinStatus = "ok"
        /\ \A i \in DOMAIN ItemsOf(features) :
              /\ ItemsOf(features)[i].hasJoined
              /\ Incomplete(ItemsOf(before)[i]) =>
                    /\ ~ItemsOf(features)[i].joined
                    /\ ItemsOf(features)[i].properties
                          = ItemsOf(before)[i].properties

-----------------------------------------------------------------------------
(* Claims about the order of retention, the locks and vanishing files *)

\* p has listed source_dir and is about to run the two passes
AtPasses(p) ==
    pc[p] = "br_check" /\ op[p].scan = "cleanup" /\ op[p].todo = {}

\* the store after the passes of p when the directory yielded the files in
\* the order `refs` and the unlinks of `failing` fail
PassOutcome(p, refs, failing) ==
    CleanupPasses([fs |-> fs, db |-> index], CollectionsOf(refs), refs,
                  op[p].now, max_days, max_files, failing)

\* C33: the sources a cleanup pass deletes do not depend on the order in
\* which the directory yielded the files: sources of equal timeStamp are
\* ordered by id
CE_C33_DeterministicOrder ==
    \A p \in Procs :
        AtPasses(p) =>
            \A r1, r2 \in Orderings(op[p].refs), failing \in SUBSET DOMAIN fs :
                DOMAIN PassOutcome(p, r1, failing).fs
                    = DOMAIN PassOutcome(p, r2, failing).fs

\* the step of p acquires the lock of a file: _build_refs reading a file,
\* a pass deleting one, process_csv opening the file of its table, a read
\* loading a file, remove_source unlinking one
TakesFileLock(p) ==
    \/ pc[p] = "br_open" /\ pc'[p] # "br_open"
    \/ AtPasses(p) /\ pc'[p] # "br_check" /\ DOMAIN fs' # DOMAIN fs
    \/ pc[p] = "pcs_open" /\ pc'[p] = "pcs_write"
    \/ pc[p] \in {"read_load", "pj_load"} /\ pc'[p] = "idle"
    \/ pc[p] = "rm_delete" /\ pc'[p] # "rm_delete" /\ op[p].path \in DOMAIN fs

\* C34: lock order: no operation acquires the lock of a file while it
\* holds the index lock
CE_C34_LockOrder ==
    [][\A p \in Procs : TakesFileLock(p) => dbLock # p]_vars

\* C35: locks are released: a caller whose operation has finished, with a
\* result or with an error, holds neither the index lock nor the lock of a
\* file; and the lock of a file is held during the whole write and the
\* whole read of the file, so that a file is half-written only under its
\* lock and no read finds a half-written file
Thm_C35_LocksReleased ==
    /\ \A p \in Procs :
          pc[p] = "idle" =>
             /\ dbLock # p
             /\ ret[p].status # "JSONDecodeError"
    /\ \A f \in DOMAIN fs : fs[f] = Truncated => FileLocked(f)

\* an index rebuild has just raised FileNotFoundError under the index lock
\* and the lock of a file, and the index lock is free for the process_csv
\* of the other caller, which waits to insert its reference
Wit_C35_LocksReleased ==
    \E p, q \in Procs :
        /\ pc[p] = "idle"
        /\ ret[p].status = "FileNotFoundError"
        /\ dbLock = "free"
        /\ pc[q] = "pcs_insert"

\* C36: read_join_source returns a table or raises the invalid-id error,
\* JoinSourceNotFoundError or JoinSourceMissingError, and nothing else, also
\* when the source is removed between the index lookup and the file read
CE_C36_ReadOutcomes ==
    \A p \in Procs :
        ret[p].name = "read_join_source" =>
            ret[p].status \in {"ok", "ValueError", "JoinSourceNotFoundError",
                               "JoinSourceMissingError"}

\* C37: a file that goes away while an index rebuild or a cleanup pass scans
\* source_dir makes neither the construction of a JoinManager nor a
\* process_csv with valid input raise
CE_C37_VanishingFiles ==
    \A p \in Procs :
        ret[p].name \in {"construct", "process_csv"} =>
            ret[p].status # "FileNotFoundError"

\* C38: deadlock freedom: with every caller that has started an operation
\* running on, no callers wait for each other's locks forever: every
\* started operation returns or raises
Thm_C38_DeadlockFree ==
    \A p \in Procs : (pc[p] # "idle") ~> (pc[p] = "idle")

\* a caller that holds the index lock waits for the lock of a file, held by
\* the other caller, which is writing that file
Wit_C38_DeadlockFree ==
    \E p, q \in Procs :
        /\ p # q
        /\ dbLock = p
        /\ pc[p] = "br_open"
        /\ pc[q] = "pcs_write"
        /\ op[p].path = op[q].output.id

-----------------------------------------------------------------------------
(* join_util: the module-level store, with the references in _REF_CACHE      *)
(* and read_join_source behind functools.lru_cache                           *)

\* @lru_cache(maxsize=8)
LruMaxSize == 8

\* the record r with its field `from` named `to`
Rename(r, from, to) ==
    [k \in (DOMAIN r \ {from}) \cup {to} |-> IF k = to THEN r[from] ELSE r[k]]

\* process_csv, lines 433-444: `output`, with collectionName
UtilOutput(c, id, t) == Rename(StoredTable(c, id, t), "collectionId", "collectionName")

\* json.dump(output, f, indent=4), lines 450-452
UtilDump(t) ==
    Rename(JsonDump(Rename(t, "collectionName", "collectionId")),
           "collectionId", "collectionName")

\* json.load(f), lines 507-508
UtilLoad(doc) ==
    Rename(JsonLoad(Rename(doc, "collectionName", "collectionId")),
           "collectionId", "collectionName")

\* _REF_CACHE[collection_name][join_id] is there
RefHas(refs, c, id) ==
    \E i \in DOMAIN refs : refs[i].collectionName = c /\ refs[i].id = id

\* sources.pop(source_id, None)
RefPop(refs, c, id) ==
    SelectSeq(refs, LAMBDA e : ~(e.collectionName = c /\ e.id = id))

\* _delete_source(ref, True) and the pop that follows when it returned
\* True (lines 117-118, 123-124); the unlink of a file in `failing` raises
UtilDeleteStale(st, c, item, failing) ==
    IF item.ref \notin DOMAIN st.fs
    THEN [st EXCEPT !.refs = RefPop(@, c, item.source_id)]
    ELSE IF item.ref \in failing THEN st
    ELSE [fs |-> Unlink(st.fs, item.ref),
          refs |-> RefPop(st.refs, c, item.source_id)]

RECURSIVE UtilDeleteAll(_, _, _, _)
UtilDeleteAll(st, c, items, failing) ==
    IF items = <<>> THEN st
    ELSE UtilDeleteAll(UtilDeleteStale(st, c, Head(items), failing), c,
                       Tail(items), failing)

\* lines 102-124: the two passes over the sources of collection c; the
\* count pass tests the number of sources the age pass left
UtilPasses(st, c, now, max_age, max_count, failing) ==
    LET sources == SelectSeq(st.refs, LAMBDA e : e.collectionName = c)
        source_items ==
            SortByTime([i \in DOMAIN sources |->
                           [timestamp |-> StrToDatetime(sources[i].timeStamp),
                            source_id |-> sources[i].id,
                            ref |-> sources[i].ref]])
        st1 == UtilDeleteAll(st, c, StaleByAge(source_items, now, max_age),
                             failing)
        left == Len(SelectSeq(st1.refs, LAMBDA e : e.collectionName = c))
    IN  IF 0 < max_count /\ max_count < left
        THEN UtilDeleteAll(st1, c,
                           SubSeq(Reverse(source_items), 1, max_count), failing)
        ELSE st1

RECURSIVE UtilPassesAll(_, _, _, _, _, _)
UtilPassesAll(st, colls, now, max_age, max_count, failing) ==
    IF colls = {} THEN st
    ELSE LET c == CHOOSE x \in colls : TRUE
         IN  UtilPassesAll(UtilPasses(st, c, now, max_age, max_count, failing),
                           colls \ {c}, now, max_age, max_count, failing)

\* _cleanup_sources, lines 90-137: nothing without a cap; else the passes,
\* after which the references whose file is gone are dropped
UtilCleanup(st, now, max_age, max_count, failing) ==
    IF max_age = 0 /\ max_count = 0 THEN st
    ELSE LET done == UtilPassesAll(st, {st.refs[i].collectionName :
                                             i \in DOMAIN st.refs},
                                   now, max_age, max_count, failing)
         IN  [done EXCEPT !.refs = SelectSeq(@, LAMBDA e : e.ref \in DOMAIN done.fs)]

\* read_join_source, lines 480-510, for a valid id: the dict returned and
\* the store it leaves
UtilLoadSource(st, c, id, now, max_age, max_count, failing) ==
    IF ~RefHas(st.refs, c, id)
    THEN [value |-> EmptyDict, st |-> st]
    ELSE LET ref == (CHOOSE i \in DOMAIN st.refs :
                        st.refs[i].collectionName = c /\ st.refs[i].id = id)
         IN  IF st.refs[ref].ref \notin DOMAIN st.fs
             THEN [value |-> EmptyDict,
                   st |-> UtilCleanup(st, now, max_age, max_count, failing)]
             ELSE [value |-> UtilLoad(st.fs[st.refs[ref].ref]), st |-> st]

\* lru_cache: the entry of (c, id), 0 when there is none
LruHit(cache, key) ==
    IF \E i \in DOMAIN cache : cache[i].key = key
    THEN CHOOSE i \in DOMAIN cache : cache[i].key = key
    ELSE 0

\* lru_cache: a hit makes the entry the most recent one
LruTouch(cache, i) ==
    <<cache[i]>> \o SubSeq(cache, 1, i - 1) \o SubSeq(cache, i + 1, Len(cache))

\* lru_cache: a result is stored, the entry used longest ago is dropped
\* when the cache is full
LruPut(cache, key, value) ==
    SubSeq(<<[key |-> key, value |-> value]>> \o cache, 1,
           Min(Len(cache) + 1, LruMaxSize))

\* the collections the caller of join_util creates sources for, and those
\* it asks for
UtilCreated == {"c1"}
UtilAsked == Collections

\* the frame of the join_util operations
UtilFrame ==
    UNCHANGED <<index, clock, dbLock, max_days, max_files, fresh, written,
                csvVars, joinVars>>

\* join_util.process_csv with valid input, lines 433-460: the cleanup, the
\* file, the reference
UtilProcessCSV(p) ==
    /\ pc[p] = "idle"
    /\ nextId <= MaxIds
    /\ \E c \in UtilCreated, failing \in SUBSET DOMAIN fs :
          LET output == UtilOutput(c, nextId, clock)
              st == UtilCleanup([fs |-> fs, refs |-> REF_CACHE], clock,
                                max_days, max_files, failing)
          IN  /\ fs' = [f \in DOMAIN st.fs \cup {nextId} |->
                           IF f = nextId THEN UtilDump(output) ELSE st.fs[f]]
              /\ REF_CACHE' = Append(st.refs,
                                     [collectionName |-> c, id |-> nextId,
                                      timeStamp |-> output.timeStamp,
                                      ref |-> nextId])
              /\ Return(p, [Outcome("join_util.process_csv", c, nextId, "ok")
                               EXCEPT !.table = output])
    /\ nextId' = nextId + 1
    /\ UNCHANGED <<lru, removed>>
    /\ UtilFrame

\* join_util.read_join_source behind lru_cache, lines 479-510: a result
\* that is cached is returned as it is; an error is not cached
UtilRead(p) ==
    /\ pc[p] = "idle"
    /\ \E c \in UtilAsked, id \in AskedIds, failing \in SUBSET DOMAIN fs :
          LET o == Outcome("join_util.read_join_source", c, id, "ok")
              hit == LruHit(lru, <<c, id>>)
              r == UtilLoadSource([fs |-> fs, refs |-> REF_CACHE], c, id,
                                  clock, max_days, max_files, failing)
          IN  IF hit # 0
              THEN /\ Return(p, [o EXCEPT !.table = lru[hit].value])
                   /\ lru' = LruTouch(lru, hit)
                   /\ UNCHANGED <<fs, REF_CACHE>>
              ELSE IF ~ValidId(id)
              THEN /\ Return(p, [o EXCEPT !.status = "ValueError"])
                   /\ UNCHANGED <<fs, REF_CACHE, lru>>
              ELSE /\ Return(p, [o EXCEPT !.table = r.value])
                   /\ lru' = LruPut(lru, <<c, id>>, r.value)
                   /\ fs' = r.st.fs
                   /\ REF_CACHE' = r.st.refs
    /\ UNCHANGED <<nextId, removed>>
    /\ UtilFrame

\* join_util.remove_source, lines 551-574: the reference is popped, then
\* the file is deleted; `del _REF_CACHE[collection_name]` raises KeyError
\* for a collection without sources
UtilRemove(p) ==
    /\ pc[p] = "idle"
    /\ \E c \in UtilAsked, id \in AskedIds :
          LET o == Outcome("join_util.remove_source", c, id, "ok")
              ref == id
          IN  IF ~ValidId(id)
              THEN /\ Return(p, [o EXCEPT !.status = "ValueError"])
                   /\ UNCHANGED <<fs, REF_CACHE, removed>>
              ELSE IF \A i \in DOMAIN REF_CACHE : REF_CACHE[i].collectionName # c
              THEN /\ Return(p, [o EXCEPT !.status = "KeyError"])
                   /\ UNCHANGED <<fs, REF_CACHE, removed>>
              ELSE IF ~RefHas(REF_CACHE, c, id)
              THEN /\ Return(p, o)
                   /\ UNCHANGED <<fs, REF_CACHE, removed>>
              ELSE /\ REF_CACHE' = RefPop(REF_CACHE, c, id)
                   /\ \/ /\ fs' = IF ref \in DOMAIN fs THEN Unlink(fs, ref)
                                   ELSE fs
                         /\ Return(p, [o EXCEPT !.flag = TRUE])
                         /\ Removed(c, id)
                      \/ /\ ref \in DOMAIN fs
                         /\ fs' = fs
                         /\ Return(p, [o EXCEPT !.status = "OSError"])
                         /\ removed' = removed
    /\ UNCHANGED <<nextId, lru>>
    /\ UtilFrame

\* SpecUtil: one caller of join_util on a source_dir that init() found
\* empty, while days pass
NextUtil ==
    UtilProcessCSV("p1") \/ UtilRead("p1") \/ UtilRemove("p1") \/ Tick

SpecUtil == InitStore /\ [][NextUtil]_vars

\* C39: a read through join_util.read_join_source of a source that
\* remove_source or a cleanup pass has deleted returns the empty dict, also
\* when the table was read, and so cached, before the deletion
CE_C39_CacheCoherence ==
    (/\ ret["p1"].name = "join_util.read_join_source"
     /\ ret["p1"].status = "ok"
     /\ ret["p1"].join_id \notin DOMAIN fs) =>
        ret["p1"].table = EmptyDict

-----------------------------------------------------------------------------
(* Claims about what the queries change                                      *)

Queries == {"list_sources", "read_join_source", "perform_join"}

\* a step of list_sources, read_join_source or perform_join of caller p
QueryStep(p) ==
    \/ pc[p] = "idle" /\ pc'[p] \in {"read_load", "pj_load"}
    \/ pc[p] \in {"read_load", "pj_load"} /\ pc'[p] = "idle"
    \/ pc[p] = "idle" /\ pc'[p] = "idle" /\ ret'[p].name \in Queries

\* what the query of that step was called with
QueryCall(p) ==
    IF pc'[p] = "idle"
    THEN [name |-> ret'[p].name, collection_id |-> ret'[p].collection_id,
          join_id |-> ret'[p].join_id]
    ELSE [name |-> op'[p].name, collection_id |-> op'[p].collection_id,
          join_id |-> op'[p].join_id]

\* the entries of `db` that are not in `after`, which holds entries of
\* `db` only, in their order
Dropped(db, after) ==
    {db[i] : i \in {j \in DOMAIN db : \A k \in DOMAIN after : after[k] # db[j]}}

====
